---- MODULE Spec2Model ----
(***************************************************************************)
(* Ant-colony simulation engine (Logta/aco-simulation).                    *)
(*                                                                         *)
(* Number representation.  The program computes in IEEE doubles; the model *)
(* computes in integers:                                                   *)
(*   - coordinates are integers;                                           *)
(*   - a distance is compared through its square (d < 10 iff d*d < 100),   *)
(*     and where the code divides by a distance the quotient is taken in   *)
(*     thousandths and rounded;                                            *)
(*   - a direction is a whole number of HeadingUnit-ths of a half turn     *)
(*     (pi/12 radians); it is not normalised, as in the code;              *)
(*   - a pheromone intensity is a whole number of 1/IntensityScale.        *)
(***************************************************************************)
EXTENDS Integers, Sequences, FiniteSets, TLC

VARIABLES
    ants,               \* store.ants: sequence of ant records
    foods,              \* store.foods: sequence of food records
    pheromones,         \* store.pheromones: Map key -> pheromone
    isRunning,          \* store.isRunning
    pheromoneDepositAmount, \* store.pheromoneDepositAmount
    pheromoneDecayRate, \* store.pheromoneDecayRate, in thousandths
    now,                \* timestamp of the last animation frame (ms)
    lastTimeRef,        \* useSimulation: lastTimeRef.current
    lastDecayTimeRef,   \* useSimulation: lastDecayTimeRef.current
    storeSpeed,         \* store.speed
    antCount,           \* store.antCount
    pheromoneTrackingStrength, \* store.pheromoneTrackingStrength, in tenths
    animationFrameRef,  \* useSimulation: whether a frame request is pending; in SpecHook the handle
    frameRequests,      \* SpecHook: the browser's list of animation frame callbacks
    rendered,           \* SpecHook: the values the component's last render read
    prev,               \* the snapshot the last operation read
    results,            \* the behaviour results the last operation computed
    op,                 \* the last operation
    ticks               \* number of operations performed

vars == <<ants, foods, pheromones, isRunning, pheromoneDepositAmount,
          pheromoneDecayRate, now, lastTimeRef, lastDecayTimeRef,
          storeSpeed, antCount, pheromoneTrackingStrength, animationFrameRef,
          frameRequests, rendered,
          prev, results, op, ticks>>

(***************************************************************************)
(* Program constants                                                       *)
(***************************************************************************)
worldWidth == 800
worldHeight == 600
nest == [x |-> 400, y |-> 300]

FOOD_DETECTION_RANGE == 20
FOOD_COLLECTION_RANGE == 10
NEST_ARRIVAL_RANGE == 10
COLLISION_AVOIDANCE_RADIUS == 6
ANT_SPEED == 2
\* FOOD_APPROACH_BIAS = 0.4, in tenths
FOOD_APPROACH_BIAS == 4
GRID_CELL_SIZE == 10
\* the cap of depositPheromone, in whole intensity
MAX_INTENSITY == 100
\* calculateFoodQualityMultiplier: foodAmount / 30, capped at 2
QUALITY_DIVISOR == 30
QUALITY_CAP == 2
\* useSimulation: 50 / speed ms between steps (speed = 1), 500 ms between decays
FRAME_DELAY_MS == 50
PHEROMONE_DECAY_INTERVAL_MS == 500
\* addFood: amount: 100
DEFAULT_FOOD_AMOUNT == 100

\* one intensity unit is 1/IntensityScale
IntensityScale == 300
\* one direction unit is pi/HeadingUnit radians
HeadingUnit == 12
\* targetFood: null; food ids are non-empty tuples
Null == << >>
\* foodAmount: null; food amounts are positive
NoAmount == -1

(***************************************************************************)
(* Arithmetic helpers                                                      *)
(***************************************************************************)
Abs(n) == IF n < 0 THEN -n ELSE n
Min(a, b) == IF a <= b THEN a ELSE b
Max(a, b) == IF a >= b THEN a ELSE b

\* the element of a singleton: { e(v) : v \in {value} } names a value computed once
TheOne(S) == CHOOSE v \in S : TRUE

\* JavaScript's %: the remainder takes the sign of the dividend
JsMod(a, b) == IF a >= 0 THEN a % b ELSE -((-a) % b)

\* n / d rounded to the nearest integer (d > 0)
RoundDiv(n, d) == (2 * n + d) \div (2 * d)

RECURSIVE SqrtSearch(_, _, _)
SqrtSearch(n, lo, hi) ==
    IF lo >= hi THEN lo
    ELSE LET mid == (lo + hi + 1) \div 2
         IN  IF mid * mid <= n THEN SqrtSearch(n, mid, hi)
             ELSE SqrtSearch(n, lo, mid - 1)

\* Math.sqrt, rounded down; n < 2^30
ISqrt(n) == SqrtSearch(n, 0, 32767)

\* Math.sqrt of a squared length, in thousandths
SqrtMilli(sq) == ISqrt(sq * 1000000)

\* Math.cos of a direction, in thousandths
CosTable == <<1000, 966, 866, 707, 500, 259, 0, -259, -500, -707, -866, -966,
              -1000, -966, -866, -707, -500, -259, 0, 259, 500, 707, 866, 966>>
CosMilli(h) == CosTable[(h % (2 * HeadingUnit)) + 1]
\* Math.sin(a) = Math.cos(a - pi/2)
SinMilli(h) == CosMilli(h - (HeadingUnit \div 2))

\* Math.atan2(dy, dx), in direction units, in (-pi, pi]; atan2(0, 0) = 0
Atan2(dy, dx) ==
    IF dx = 0 /\ dy = 0 THEN 0
    ELSE LET range == (1 - HeadingUnit) .. HeadingUnit
             score(h) == dx * CosMilli(h) + dy * SinMilli(h)
         IN  TheOne({ CHOOSE h \in best :
                          \A g \in best : Abs(h) < Abs(g) \/ (Abs(h) = Abs(g) /\ h >= g) :
                      best \in {{h \in range : \A g \in range : score(h) >= score(g)}} })

(***************************************************************************)
(* geometry.ts                                                             *)
(***************************************************************************)
\* variant: the world has edges, and positions are left as computed
torusWrapNot(position) == position

torusWrap(position) ==
    [x |-> JsMod(JsMod(position.x, worldWidth) + worldWidth, worldWidth),
     y |-> JsMod(JsMod(position.y, worldHeight) + worldHeight, worldHeight)]

\* the square of torusDistance(a, b)
torusDistanceSq(a, b) ==
    TheOne({ wrappedDx * wrappedDx + wrappedDy * wrappedDy :
             wrappedDx \in {Min(Abs(a.x - b.x), worldWidth - Abs(a.x - b.x))},
             wrappedDy \in {Min(Abs(a.y - b.y), worldHeight - Abs(a.y - b.y))} })

normalizeAngle(angle) ==
    TheOne({ IF down < -HeadingUnit
             THEN down + 2 * HeadingUnit * ((HeadingUnit - down - 1) \div (2 * HeadingUnit))
             ELSE down :
             down \in {IF angle > HeadingUnit
                       THEN angle - 2 * HeadingUnit
                                * ((angle + HeadingUnit - 1) \div (2 * HeadingUnit))
                       ELSE angle} })

\* the signed shortest displacement along one axis, as every mover computes it
wrappedDelta(d, size) ==
    IF 2 * d > size THEN d - size
    ELSE IF 2 * d < -size THEN d + size
    ELSE d

(***************************************************************************)
(* pheromone.ts                                                            *)
(***************************************************************************)
EmptyField == [k \in {} |-> 0]

\* Map.prototype.set on a copy
MapSet(m, key, value) ==
    [k \in (DOMAIN m) \cup {key} |-> IF k = key THEN value ELSE m[k]]

createPheromoneKey(position) ==
    <<position.x \div GRID_CELL_SIZE, position.y \div GRID_CELL_SIZE>>

\* a deposit that stamps the deposited type on an occupied cell
depositPheromoneRetyping(field, position, type, amount) ==
    LET key == createPheromoneKey(position)
        newPheromone ==
            [position |->
                [x |-> (position.x \div GRID_CELL_SIZE) * GRID_CELL_SIZE + (GRID_CELL_SIZE \div 2),
                 y |-> (position.y \div GRID_CELL_SIZE) * GRID_CELL_SIZE + (GRID_CELL_SIZE \div 2)],
             intensity |-> IF key \in DOMAIN field
                           THEN Min(MAX_INTENSITY * IntensityScale,
                                    field[key].intensity + amount)
                           ELSE amount,
             type |-> type]
    IN  MapSet(field, key, newPheromone)

\* amount is in intensity units
depositPheromone(field, position, type, amount) ==
    LET key == createPheromoneKey(position)
        newPheromone ==
            IF key \in DOMAIN field
            THEN [field[key] EXCEPT
                    !.intensity = Min(MAX_INTENSITY * IntensityScale, @ + amount)]
            ELSE [position |->
                    [x |-> (position.x \div GRID_CELL_SIZE) * GRID_CELL_SIZE + (GRID_CELL_SIZE \div 2),
                     y |-> (position.y \div GRID_CELL_SIZE) * GRID_CELL_SIZE + (GRID_CELL_SIZE \div 2)],
                  intensity |-> amount,
                  type |-> type]
    IN  MapSet(field, key, newPheromone)

(***************************************************************************)
(* movement: moveAnt, moveTowardsTarget, moveWithBias                      *)
(***************************************************************************)
\* position + (cos, sin)(direction) * length, each coordinate rounded
stepFrom(position, direction, length) ==
    [x |-> position.x + RoundDiv(CosMilli(direction) * length, 1000),
     y |-> position.y + RoundDiv(SinMilli(direction) * length, 1000)]

\* randomTurn is (Math.random() - 0.5) * randomTurnRange, -1, 0 or 1 unit
moveAnt(position, direction, randomTurn) ==
    LET newDirection == direction + randomTurn
    IN  [position |-> torusWrap(stepFrom(position, newDirection, ANT_SPEED)),
         direction |-> newDirection]

\* |v| * speed / distance rounded, with the sign of v; distSq = distance^2 > 0
scaleToSpeed(v, distSq, speed) ==
    LET fits(m) == m = 0 \/ (2 * m - 1) * (2 * m - 1) * distSq <= 4 * v * v * speed * speed
    IN  TheOne({ IF v < 0 THEN -m ELSE m :
                 m \in {CHOOSE k \in 0 .. speed :
                            fits(k) /\ \A j \in 0 .. speed : fits(j) => j <= k} })

\* variant: the mover takes the long way round the world
moveTowardsTargetLongWay(position, target, speed) ==
    TheOne({ TheOne({ IF distSq < speed * speed THEN target
                      ELSE torusWrap([x |-> position.x - scaleToSpeed(wrappedDx, distSq, speed),
                                      y |-> position.y - scaleToSpeed(wrappedDy, distSq, speed)]) :
                      distSq \in {wrappedDx * wrappedDx + wrappedDy * wrappedDy} }) :
             wrappedDx \in {wrappedDelta(target.x - position.x, worldWidth)},
             wrappedDy \in {wrappedDelta(target.y - position.y, worldHeight)} })

moveTowardsTarget(position, target, speed) ==
    TheOne({ TheOne({ IF distSq < speed * speed THEN target
                      ELSE torusWrap([x |-> position.x + scaleToSpeed(wrappedDx, distSq, speed),
                                      y |-> position.y + scaleToSpeed(wrappedDy, distSq, speed)]) :
                      distSq \in {wrappedDx * wrappedDx + wrappedDy * wrappedDy} }) :
             wrappedDx \in {wrappedDelta(target.x - position.x, worldWidth)},
             wrappedDy \in {wrappedDelta(target.y - position.y, worldHeight)} })

\* randomTurn stands for randomTurn * (1 - biasStrength)
moveWithBias(position, direction, target, biasTenths, randomTurn) ==
    LET adjusted(directionToTarget) ==
            IF directionToTarget > HeadingUnit THEN directionToTarget - 2 * HeadingUnit
            ELSE IF directionToTarget < -HeadingUnit THEN directionToTarget + 2 * HeadingUnit
            ELSE directionToTarget
    IN  TheOne({ [position |-> torusWrap(stepFrom(position, newDirection, ANT_SPEED)),
                  direction |-> newDirection] :
                 newDirection \in
                     { direction + RoundDiv(adjusted(directionToTarget) * biasTenths, 10)
                           + randomTurn :
                       directionToTarget \in
                           { targetDirection - direction :
                             targetDirection \in
                                 {Atan2(wrappedDelta(target.y - position.y, worldHeight),
                                        wrappedDelta(target.x - position.x, worldWidth))} } } })

(***************************************************************************)
(* collision.ts: avoidCollisions                                           *)
(***************************************************************************)
\* variant: the ant's own entry repels like any other
repulsionFromAll(position, other, currentAntId, avoidanceRadius) ==
    TheOne({
        IF ~(distSq < avoidanceRadius * avoidanceRadius /\ distSq > 0) THEN <<0, 0, 0>>
        ELSE TheOne({ <<RoundDiv(wrappedDx * weight * 1000, length),
                        RoundDiv(wrappedDy * weight * 1000, length), 1>> :
                      weight \in {((avoidanceRadius * 1000 - SqrtMilli(distSq)) * 1000)
                                     \div (avoidanceRadius * 1000)},
                      length \in {SqrtMilli(wrappedDx * wrappedDx + wrappedDy * wrappedDy)} }) :
        distSq \in {torusDistanceSq(position, other.position)},
        wrappedDx \in {wrappedDelta(position.x - other.position.x, worldWidth)},
        wrappedDy \in {wrappedDelta(position.y - other.position.y, worldHeight)} })

\* the repulsion one other ant adds, in thousandths; <<0, 0, 0>> if none
repulsion(position, other, currentAntId, avoidanceRadius) ==
    IF other.id = currentAntId THEN <<0, 0, 0>>
    ELSE TheOne({
        IF ~(distSq < avoidanceRadius * avoidanceRadius /\ distSq > 0) THEN <<0, 0, 0>>
        ELSE IF ~(wrappedDx * wrappedDx + wrappedDy * wrappedDy > 0) THEN <<0, 0, 0>>
        ELSE TheOne({ <<RoundDiv(wrappedDx * weight * 1000, length),
                        RoundDiv(wrappedDy * weight * 1000, length), 1>> :
                      weight \in {((avoidanceRadius * 1000 - SqrtMilli(distSq)) * 1000)
                                     \div (avoidanceRadius * 1000)},
                      length \in {SqrtMilli(wrappedDx * wrappedDx + wrappedDy * wrappedDy)} }) :
        distSq \in {torusDistanceSq(position, other.position)},
        wrappedDx \in {wrappedDelta(position.x - other.position.x, worldWidth)},
        wrappedDy \in {wrappedDelta(position.y - other.position.y, worldHeight)} })

RECURSIVE avoidanceForce(_, _, _, _, _)
avoidanceForce(position, otherAnts, currentAntId, avoidanceRadius, i) ==
    IF i > Len(otherAnts) THEN <<0, 0, 0>>
    ELSE TheOne({ <<r[1] + rest[1], r[2] + rest[2], r[3] + rest[3]>> :
                  r \in {repulsion(position, otherAnts[i], currentAntId, avoidanceRadius)},
                  rest \in {avoidanceForce(position, otherAnts, currentAntId, avoidanceRadius,
                                           i + 1)} })

\* avoidanceStrength is 0.5: min(collisionCount * 0.5, 1) is strength2 / 2
avoidCollisions(position, direction, otherAnts, currentAntId, avoidanceRadius) ==
    TheOne({
        \* force[3] is collisionCount
        IF force[3] = 0 THEN [direction |-> direction, position |-> position]
        ELSE TheOne({
                 [direction |-> direction
                                  + RoundDiv(normalizeAngle(avoidanceDirection - direction)
                                                 * strength2, 2),
                  \* adjustmentStrength = finalAvoidanceStrength * 0.5 = strength2 / 4
                  position |-> torusWrap([x |-> position.x + RoundDiv(force[1] * strength2, 4000),
                                          y |-> position.y + RoundDiv(force[2] * strength2, 4000)])] :
                 avoidanceDirection \in {Atan2(force[2], force[1])},
                 strength2 \in {Min(force[3], 2)} }) :
        force \in {avoidanceForce(position, otherAnts, currentAntId, avoidanceRadius, 1)} })

(***************************************************************************)
(* pathfinding: followPheromone                                            *)
(***************************************************************************)
SENSOR_DISTANCE == 20
\* sensorAngle = pi / 4, in direction units
SENSOR_ANGLE == 3
DETECTION_RADIUS == 30
\* minimumStrength = 0.1, in intensity units
MINIMUM_STRENGTH == 30

RECURSIVE strengthOver(_, _, _, _)
strengthOver(field, keys, sensorPos, targetType) ==
    IF keys = {} THEN 0
    ELSE TheOne({
        TheOne({ IF field[k].type = targetType /\ distSq < DETECTION_RADIUS * DETECTION_RADIUS
                 THEN (field[k].intensity * 1000) \div (1000 + SqrtMilli(distSq))
                 ELSE 0 :
                 distSq \in {torusDistanceSq(sensorPos, field[k].position)} })
            + strengthOver(field, keys \ {k}, sensorPos, targetType) :
        k \in {CHOOSE q \in keys : TRUE} })

\* variant: of the strongest sensors the last one wins
followPheromoneLastMax(position, field, targetType, direction) ==
    LET sensors == <<direction - SENSOR_ANGLE, direction, direction + SENSOR_ANGLE>>
    IN  TheOne({
            TheOne({ IF sensorStrengths[maxIndex] > MINIMUM_STRENGTH THEN sensors[maxIndex]
                     ELSE direction :
                     maxIndex \in
                         {CHOOSE i \in 1 .. 3 :
                             /\ \A j \in 1 .. 3 : sensorStrengths[i] >= sensorStrengths[j]
                             /\ \A j \in (i + 1) .. 3 : sensorStrengths[j] < sensorStrengths[i]} }) :
            sensorStrengths \in
                {[i \in 1 .. 3 |->
                     TheOne({ strengthOver(field, DOMAIN field, sensorPos, targetType) :
                              sensorPos \in {stepFrom(position, sensors[i], SENSOR_DISTANCE)} })]} })

followPheromone(position, field, targetType, direction) ==
    LET sensors == <<direction - SENSOR_ANGLE, direction, direction + SENSOR_ANGLE>>
    IN  TheOne({
            TheOne({ IF sensorStrengths[maxIndex] > MINIMUM_STRENGTH THEN sensors[maxIndex]
                     ELSE direction :
                     maxIndex \in
                         {CHOOSE i \in 1 .. 3 :
                             /\ \A j \in 1 .. 3 : sensorStrengths[i] >= sensorStrengths[j]
                             /\ \A j \in 1 .. (i - 1) : sensorStrengths[j] < sensorStrengths[i]} }) :
            sensorStrengths \in
                {[i \in 1 .. 3 |->
                     TheOne({ strengthOver(field, DOMAIN field, sensorPos, targetType) :
                              sensorPos \in {stepFrom(position, sensors[i], SENSOR_DISTANCE)} })]} })

(***************************************************************************)
(* ant-behavior.ts                                                         *)
(*                                                                         *)
(* A context is [ant, foods, pheromones, ants, pheromoneDepositAmount]     *)
(* (nest and world size are the constants above); pheromoneDepositAmount   *)
(* is in tenths.  A draw is [turn, follow]: the random turn of the mover   *)
(* and whether Math.random() < pheromoneTrackingStrength.  A result is     *)
(* [antUpdate, pheromoneUpdates, foodUpdate, removeFood]; an optional      *)
(* field holds a set of at most one value.                                 *)
(***************************************************************************)
\* variant: the multiplier grows with the amount without a cap
calculateFoodQualityMultiplierUncapped(foodAmount) ==
    IF foodAmount = NoAmount \/ foodAmount = 0 THEN QUALITY_DIVISOR
    ELSE QUALITY_DIVISOR + foodAmount

\* the multiplier times QUALITY_DIVISOR
calculateFoodQualityMultiplier(foodAmount) ==
    IF foodAmount = NoAmount \/ foodAmount = 0 THEN QUALITY_DIVISOR
    ELSE QUALITY_DIVISOR + Min(foodAmount, QUALITY_CAP * QUALITY_DIVISOR)

\* pheromoneDepositAmount * foodQualityMultiplier, in intensity units
depositAmount(context) ==
    (context.pheromoneDepositAmount * calculateFoodQualityMultiplier(context.ant.foodAmount)
        * IntensityScale) \div (10 * QUALITY_DIVISOR)

moveTowardsNest(context) ==
    TheOne({ [position |-> avoidanceResult.position, direction |-> avoidanceResult.direction] :
             avoidanceResult \in
                 { avoidCollisions(newPosition, newDirection, context.ants, context.ant.id,
                                   COLLISION_AVOIDANCE_RADIUS) :
                   newPosition \in {moveTowardsTarget(context.ant.position, nest, ANT_SPEED)},
                   newDirection \in
                       {Atan2(wrappedDelta(nest.y - context.ant.position.y, worldHeight),
                              wrappedDelta(nest.x - context.ant.position.x, worldWidth))} } })

\* variant: the arriving ant also marks the cell it stands in
executeReturningBehaviorMarkingArrival(context) ==
    IF torusDistanceSq(context.ant.position, nest) < NEST_ARRIVAL_RANGE * NEST_ARRIVAL_RANGE
    THEN [antUpdate |-> [hasFood |-> FALSE, targetFood |-> Null, foodAmount |-> NoAmount],
          pheromoneUpdates |->
              depositPheromone(context.pheromones, context.ant.position, "toFood",
                               depositAmount(context)),
          foodUpdate |-> {},
          removeFood |-> {}]
    ELSE [antUpdate |-> moveTowardsNest(context),
          pheromoneUpdates |->
              depositPheromone(context.pheromones, context.ant.position, "toFood",
                               depositAmount(context)),
          foodUpdate |-> {},
          removeFood |-> {}]

\* variant: the carrier keeps walking and depositing, and never drops its food
executeReturningBehaviorNeverArriving(context) ==
    [antUpdate |-> moveTowardsNest(context),
     pheromoneUpdates |->
         depositPheromone(context.pheromones, context.ant.position, "toFood",
                          depositAmount(context)),
     foodUpdate |-> {},
     removeFood |-> {}]

executeReturningBehavior(context) ==
    LET ant == context.ant
        distanceToNestSq == torusDistanceSq(ant.position, nest)
    IN  IF distanceToNestSq < NEST_ARRIVAL_RANGE * NEST_ARRIVAL_RANGE
        THEN [antUpdate |-> [hasFood |-> FALSE, targetFood |-> Null, foodAmount |-> NoAmount],
              pheromoneUpdates |-> EmptyField,
              foodUpdate |-> {},
              removeFood |-> {}]
        ELSE [antUpdate |-> moveTowardsNest(context),
              pheromoneUpdates |->
                  depositPheromone(context.pheromones, ant.position, "toFood",
                                   depositAmount(context)),
              foodUpdate |-> {},
              removeFood |-> {}]

\* foods.find: the indexes of the first food within the detection range
\* variant: an ant that remembers a food in range goes for that one
detectNearbyFoodRemembered(context) ==
    LET inRange(i) == torusDistanceSq(context.ant.position, context.foods[i].position)
                          <= FOOD_DETECTION_RANGE * FOOD_DETECTION_RANGE
        remembered == {i \in 1 .. Len(context.foods) :
                          inRange(i) /\ context.foods[i].id = context.ant.targetFood}
    IN  IF remembered # {} THEN {CHOOSE i \in remembered : TRUE}
        ELSE {i \in 1 .. Len(context.foods) : inRange(i) /\ \A j \in 1 .. (i - 1) : ~inRange(j)}

detectNearbyFood(context) ==
    LET inRange(i) == torusDistanceSq(context.ant.position, context.foods[i].position)
                          <= FOOD_DETECTION_RANGE * FOOD_DETECTION_RANGE
    IN  {i \in 1 .. Len(context.foods) : inRange(i) /\ \A j \in 1 .. (i - 1) : ~inRange(j)}

\* variant: the pickup does not record the amount
collectFoodForgettingAmount(food) ==
    LET newAmount == food.amount - 1
    IN  [antUpdate |-> [hasFood |-> TRUE, targetFood |-> food.id],
         pheromoneUpdates |-> EmptyField,
         foodUpdate |-> IF newAmount > 0 THEN {[id |-> food.id, amount |-> newAmount]} ELSE {},
         removeFood |-> IF newAmount <= 0 THEN {food.id} ELSE {}]

\* variant: a food is removed only once its amount is negative
collectFoodKeepingEmpty(food) ==
    [antUpdate |-> [hasFood |-> TRUE, targetFood |-> food.id, foodAmount |-> food.amount],
     pheromoneUpdates |-> EmptyField,
     foodUpdate |-> IF food.amount - 1 >= 0
                    THEN {[id |-> food.id, amount |-> food.amount - 1]} ELSE {},
     removeFood |-> IF food.amount - 1 < 0 THEN {food.id} ELSE {}]

collectFood(food) ==
    LET newAmount == food.amount - 1
    IN  [antUpdate |-> [hasFood |-> TRUE, targetFood |-> food.id, foodAmount |-> food.amount],
         pheromoneUpdates |-> EmptyField,
         foodUpdate |-> IF newAmount > 0 THEN {[id |-> food.id, amount |-> newAmount]} ELSE {},
         removeFood |-> IF newAmount <= 0 THEN {food.id} ELSE {}]

\* variant: the approaching ant lays a trail as well
approachFoodLayingTrail(context, food, draw) ==
    TheOne({ [antUpdate |-> [position |-> avoidanceResult.position,
                             direction |-> avoidanceResult.direction],
              pheromoneUpdates |->
                  depositPheromone(context.pheromones, context.ant.position, "toFood",
                                   depositAmount(context)),
              foodUpdate |-> {},
              removeFood |-> {}] :
             avoidanceResult \in
                 { avoidCollisions(moved.position, moved.direction, context.ants,
                                   context.ant.id, COLLISION_AVOIDANCE_RADIUS) :
                   moved \in {moveWithBias(context.ant.position, context.ant.direction,
                                           food.position, FOOD_APPROACH_BIAS, draw.turn)} } })

approachFood(context, food, draw) ==
    TheOne({ [antUpdate |-> [position |-> avoidanceResult.position,
                             direction |-> avoidanceResult.direction],
              pheromoneUpdates |-> EmptyField,
              foodUpdate |-> {},
              removeFood |-> {}] :
             avoidanceResult \in
                 { avoidCollisions(moved.position, moved.direction, context.ants,
                                   context.ant.id, COLLISION_AVOIDANCE_RADIUS) :
                   moved \in {moveWithBias(context.ant.position, context.ant.direction,
                                           food.position, FOOD_APPROACH_BIAS, draw.turn)} } })

handleFoodInteraction(context, food, draw) ==
    LET distanceToFoodSq == torusDistanceSq(context.ant.position, food.position)
    IN  IF distanceToFoodSq < FOOD_COLLECTION_RANGE * FOOD_COLLECTION_RANGE
        THEN collectFood(food)
        ELSE approachFood(context, food, draw)

\* normalizedDiff > 0.1 radians: at least one direction unit
shouldFollowPheromone(context, pheromoneDirection, draw) ==
    IF DOMAIN context.pheromones = {} THEN FALSE
    ELSE IF ~draw.follow THEN FALSE
    ELSE LET directionDiff == Abs(pheromoneDirection - context.ant.direction)
             normalizedDiff == Min(directionDiff, 2 * HeadingUnit - directionDiff)
         IN  normalizedDiff > 0

executeExploration(context, draw) ==
    TheOne({ [antUpdate |-> [position |-> avoidanceResult.position,
                             direction |-> avoidanceResult.direction],
              pheromoneUpdates |-> EmptyField,
              foodUpdate |-> {},
              removeFood |-> {}] :
             avoidanceResult \in
                 { avoidCollisions(moved.position, moved.direction, context.ants,
                                   context.ant.id, COLLISION_AVOIDANCE_RADIUS) :
                   moved \in
                       { IF shouldFollowPheromone(context, pheromoneDirection, draw)
                         THEN moveAnt(context.ant.position, pheromoneDirection, draw.turn)
                         ELSE moveAnt(context.ant.position, context.ant.direction, draw.turn) :
                         pheromoneDirection \in
                             {followPheromone(context.ant.position, context.pheromones,
                                              "toFood", context.ant.direction)} } } })

executeForagingBehavior(context, draw) ==
    TheOne({ IF nearbyFood # {}
             THEN handleFoodInteraction(context, context.foods[CHOOSE i \in nearbyFood : TRUE],
                                        draw)
             ELSE executeExploration(context, draw) :
             nearbyFood \in {detectNearbyFood(context)} })

executeAntBehavior(context, draw) ==
    IF context.ant.hasFood
    THEN executeReturningBehavior(context)
    ELSE executeForagingBehavior(context, draw)

(***************************************************************************)
(* pheromone.ts: decayPheromones, both revisions.  decayRate is in         *)
(* thousandths.                                                            *)
(***************************************************************************)
\* 0.01, in intensity units
EXP_THRESHOLD == 3
\* 0.1 and baseEvaporation = 0.05, in intensity units
MIN_INTENSITY_THRESHOLD == 30
BASE_EVAPORATION == 15

\* first revision: intensity * decayRate, kept above 0.01
decayedExponential(intensity, decayRate) == (intensity * decayRate) \div 1000

decayPheromonesExponential(field, decayRate) ==
    LET kept == {k \in DOMAIN field :
                    decayedExponential(field[k].intensity, decayRate) > EXP_THRESHOLD}
    IN  [k \in kept |->
            [field[k] EXCEPT !.intensity = decayedExponential(@, decayRate)]]

\* 1000 * log10(i + 1) / log10(101) for i = 0 .. 150
LogFactorTable == <<
    0, 150, 238, 300, 349, 388, 422, 451, 476, 499, 520, 538,
    556, 572, 587, 601, 614, 626, 638, 649, 660, 670, 679, 689,
    697, 706, 714, 722, 730, 737, 744, 751, 758, 764, 770, 776,
    782, 788, 794, 799, 805, 810, 815, 820, 825, 830, 834, 839,
    843, 848, 852, 856, 860, 864, 868, 872, 876, 880, 884, 887,
    891, 894, 898, 901, 905, 908, 911, 914, 917, 921, 924, 927,
    930, 933, 936, 938, 941, 944, 947, 949, 952, 955, 957, 960,
    963, 965, 968, 970, 973, 975, 977, 980, 982, 984, 987, 989,
    991, 993, 996, 998, 1000, 1002, 1004, 1006, 1008, 1010, 1013, 1015,
    1017, 1018, 1020, 1022, 1024, 1026, 1028, 1030, 1032, 1034, 1036, 1037,
    1039, 1041, 1043, 1044, 1046, 1048, 1050, 1051, 1053, 1055, 1056, 1058,
    1060, 1061, 1063, 1064, 1066, 1068, 1069, 1071, 1072, 1074, 1075, 1077,
    1078, 1080, 1081, 1083, 1084, 1086, 1087>>

\* Math.log10(intensity + 1) / Math.log10(101), in thousandths, of the whole part
logFactor(intensity) == LogFactorTable[(intensity \div IntensityScale) + 1]

\* current revision: intensity - (0.05 + logFactor * (1 - decayRate) * 10 * intensity)
decayedLogarithmic(intensity, decayRate) ==
    LET evaporation == (logFactor(intensity) * (1000 - decayRate)) \div 100
        logEvaporation == (evaporation * intensity) \div 1000
    IN  intensity - (BASE_EVAPORATION + logEvaporation)

\* a decay that lowers every entry and removes none
decayPheromonesKeepingAll(field, decayRate) ==
    [k \in DOMAIN field |->
        [field[k] EXCEPT !.intensity = decayedLogarithmic(@, decayRate)]]

decayPheromones(field, decayRate) ==
    LET kept == {k \in DOMAIN field :
                    decayedLogarithmic(field[k].intensity, decayRate) > MIN_INTENSITY_THRESHOLD}
    IN  [k \in kept |->
            [field[k] EXCEPT !.intensity = decayedLogarithmic(@, decayRate)]]

(***************************************************************************)
(* The simulation step (executeSimulationStep).  A state is                *)
(* [ants, foods, pheromones]; draws maps an ant id to its draw.            *)
(***************************************************************************)
Snapshot(a, f, p) == [ants |-> a, foods |-> f, pheromones |-> p]

\* { ...ant, ...antUpdate }
Merge(record, update) ==
    [f \in DOMAIN record |-> IF f \in DOMAIN update THEN update[f] ELSE record[f]]

contextOf(ant, state, deposit) ==
    [ant |-> ant, foods |-> state.foods, pheromones |-> state.pheromones,
     ants |-> state.ants, pheromoneDepositAmount |-> deposit]

\* variant: each ant is processed against the foods the ants before it have left
processAllAntsInPlace(state, deposit, draws) ==
    LET foodsAfter(before) ==
            LET removed == UNION {before[j].result.removeFood : j \in 1 .. Len(before)}
                left(food) == {u.amount : u \in {v \in UNION {before[j].result.foodUpdate :
                                                                 j \in 1 .. Len(before)} :
                                                    v.id = food.id}}
                kept == SelectSeq(state.foods, LAMBDA food : food.id \notin removed)
            IN  [i \in 1 .. Len(kept) |->
                    IF left(kept[i]) = {} THEN kept[i]
                    ELSE [kept[i] EXCEPT
                            !.amount = CHOOSE m \in left(kept[i]) :
                                           \A n \in left(kept[i]) : m <= n]]
        RECURSIVE upTo(_)
        upTo(n) ==
            IF n = 0 THEN << >>
            ELSE TheOne({
                Append(before,
                       TheOne({ [antId |-> context.ant.id,
                                 result |-> executeAntBehavior(context, draws[context.ant.id])] :
                                context \in {contextOf(state.ants[n],
                                                       [state EXCEPT !.foods = foodsAfter(before)],
                                                       deposit)} })) :
                before \in {upTo(n - 1)} })
    IN  upTo(Len(state.ants))

processAllAnts(state, deposit, draws) ==
    [i \in 1 .. Len(state.ants) |->
        TheOne({ [antId |-> context.ant.id,
                  result |-> executeAntBehavior(context, draws[context.ant.id])] :
                 context \in {contextOf(state.ants[i], state, deposit)} })]

\* results.forEach(... pheromoneUpdates.set(key, pheromone)) from result i on
RECURSIVE mergePheromoneUpdates(_, _, _)
mergePheromoneUpdates(acc, res, i) ==
    IF i > Len(res) THEN acc
    ELSE TheOne({ mergePheromoneUpdates(
                      [k \in (DOMAIN acc) \cup (DOMAIN updates) |->
                          IF k \in DOMAIN updates THEN updates[k] ELSE acc[k]],
                      res, i + 1) :
                  updates \in {res[i].result.pheromoneUpdates} })

\* the SimulationUpdate: a record of the fields the step replaces
applyBehaviorResults(state, res) ==
    LET \* antUpdates.get(id): the entry set last
        lastFor(id) == CHOOSE j \in 1 .. Len(res) :
                           res[j].antId = id /\ \A l \in (j + 1) .. Len(res) : res[l].antId # id
        hasUpdate(id) == \E j \in 1 .. Len(res) : res[j].antId = id
        newAnts == [i \in 1 .. Len(state.ants) |->
                       IF hasUpdate(state.ants[i].id)
                       THEN Merge(state.ants[i], res[lastFor(state.ants[i].id)].result.antUpdate)
                       ELSE state.ants[i]]
        foodsToRemove == UNION {res[j].result.removeFood : j \in 1 .. Len(res)}
        updatedIds == {u.id : u \in UNION {res[j].result.foodUpdate : j \in 1 .. Len(res)}}
        \* foodAmountUpdates.get(id): the amount set last
        amountFor(id) ==
            LET j == CHOOSE l \in 1 .. Len(res) :
                         /\ \E u \in res[l].result.foodUpdate : u.id = id
                         /\ \A m \in (l + 1) .. Len(res) :
                                \A u \in res[m].result.foodUpdate : u.id # id
            IN  (CHOOSE u \in res[j].result.foodUpdate : u.id = id).amount
        newFoods(keptFoods) ==
            [i \in 1 .. Len(keptFoods) |->
                IF keptFoods[i].id \in updatedIds
                THEN [keptFoods[i] EXCEPT !.amount = amountFor(keptFoods[i].id)]
                ELSE keptFoods[i]]
        present(pheromoneUpdates) ==
            (IF Len(res) > 0 THEN {"ants"} ELSE {})
                \cup (IF Cardinality(DOMAIN pheromoneUpdates)
                          # Cardinality(DOMAIN state.pheromones)
                      THEN {"pheromones"} ELSE {})
                \cup (IF foodsToRemove # {} \/ updatedIds # {} THEN {"foods"} ELSE {})
    IN  TheOne({ [f \in present(pheromoneUpdates) |->
                     CASE f = "ants" -> newAnts
                       [] f = "pheromones" -> pheromoneUpdates
                       [] f = "foods" -> newFoods(keptFoods)] :
                 pheromoneUpdates \in {mergePheromoneUpdates(state.pheromones, res, 1)},
                 keptFoods \in {SelectSeq(state.foods,
                                          LAMBDA food : food.id \notin foodsToRemove)} })

executeSimulationStep(state, deposit, draws) ==
    TheOne({ applyBehaviorResults(state, antBehaviorResults) :
             antBehaviorResults \in {processAllAnts(state, deposit, draws)} })

\* the state with the fields of an update replaced (set(update))
Committed(state, update) == Merge(state, update)

(***************************************************************************)
(* useSimulation.ts (current revision): the frame callback animate.  Its   *)
(* ant loop is written inline, against the positional signatures of ant.ts *)
(***************************************************************************)
\* avoidCollisions' default avoidanceRadius in ant.ts
DEFAULT_AVOIDANCE_RADIUS == 8

\* the body of ants.forEach: what one ant pushes onto the batch
animateAnt(context, draw) ==
    LET ant == context.ant
        unchanged == [pheromoneUpdates |-> EmptyField, foodUpdate |-> {}, removeFood |-> {}]
        \* hasFood, not arrived: move towards the nest and deposit
        returning ==
            TheOne({ [antUpdate |-> [position |-> newPosition,
                                     direction |-> avoidanceResult.direction],
                      pheromoneUpdates |->
                          depositPheromone(context.pheromones, ant.position, "toFood",
                                           depositAmount(context)),
                      foodUpdate |-> {},
                      removeFood |-> {}] :
                     <<newPosition, avoidanceResult>> \in
                         { <<p, avoidCollisions(p, towardsNest, context.ants, ant.id,
                                                COLLISION_AVOIDANCE_RADIUS)>> :
                           p \in {moveTowardsTarget(ant.position, nest, ANT_SPEED)},
                           towardsNest \in
                               {Atan2(wrappedDelta(nest.y - ant.position.y, worldHeight),
                                      wrappedDelta(nest.x - ant.position.x, worldWidth))} } })
        \* the food found is in reach: collect
        collect(food) ==
            TheOne({ [antUpdate |-> [hasFood |-> TRUE, targetFood |-> food.id,
                                     foodAmount |-> food.amount],
                      pheromoneUpdates |-> EmptyField,
                      foodUpdate |-> IF newAmount <= 0 THEN {}
                                     ELSE {[id |-> food.id, amount |-> newAmount]},
                      removeFood |-> IF newAmount <= 0 THEN {food.id} ELSE {}] :
                     newAmount \in
                         \* foods.find(f => f.id === nearbyFood.id)
                         {context.foods[CHOOSE i \in 1 .. Len(context.foods) :
                              /\ context.foods[i].id = food.id
                              /\ \A j \in 1 .. (i - 1) : context.foods[j].id # food.id].amount
                              - 1} })
        \* follow the trail or walk on, when no food is near
        walked ==
            TheOne({ IF (draw.follow /\ DOMAIN context.pheromones # {})
                            /\ Min(Abs(newDirection - ant.direction),
                                   2 * HeadingUnit - Abs(newDirection - ant.direction)) > 0
                     THEN moveAnt(ant.position, newDirection, draw.turn)
                     ELSE moveAnt(ant.position, ant.direction, draw.turn) :
                     newDirection \in {followPheromone(ant.position, context.pheromones,
                                                       "toFood", ant.direction)} })
        moving(moved) ==
            TheOne({ [antUpdate |-> [position |-> avoidanceResult.position,
                                     direction |-> avoidanceResult.direction]] @@ unchanged :
                     avoidanceResult \in
                         {avoidCollisions(moved.position, moved.direction, context.ants,
                                          ant.id, DEFAULT_AVOIDANCE_RADIUS)} })
        foraging(nearbyFood) ==
            IF nearbyFood = {}
            THEN TheOne({ moving(moved) : moved \in {walked} })
            ELSE TheOne({
                     IF torusDistanceSq(ant.position, food.position)
                            < FOOD_COLLECTION_RANGE * FOOD_COLLECTION_RANGE
                     THEN collect(food)
                     ELSE TheOne({ moving(moved) :
                                   moved \in {moveWithBias(ant.position, ant.direction,
                                                           food.position, FOOD_APPROACH_BIAS,
                                                           draw.turn)} }) :
                     food \in {context.foods[i] : i \in nearbyFood} })
    IN  IF ant.hasFood
        THEN IF torusDistanceSq(ant.position, nest) < NEST_ARRIVAL_RANGE * NEST_ARRIVAL_RANGE
             THEN [antUpdate |-> [hasFood |-> FALSE, targetFood |-> Null,
                                  foodAmount |-> NoAmount]] @@ unchanged
             ELSE returning
        ELSE TheOne({ foraging(nearbyFood) : nearbyFood \in {detectNearbyFood(context)} })

\* what the loop over the rendered ants pushes, in order
animateBatch(state, deposit, draws) ==
    [i \in 1 .. Len(state.ants) |->
        TheOne({ [antId |-> context.ant.id,
                  result |-> animateAnt(context, draws[context.ant.id])] :
                 context \in {contextOf(state.ants[i], state, deposit)} })]

\* the updater given to setState, before the decay
animateApply(state, batch) ==
    LET \* antUpdates.find(u => u.id === ant.id): the first pushed
        firstFor(id) == CHOOSE j \in 1 .. Len(batch) :
                            batch[j].antId = id /\ \A l \in 1 .. (j - 1) : batch[l].antId # id
        hasUpdate(id) == \E j \in 1 .. Len(batch) : batch[j].antId = id
        newAnts == [i \in 1 .. Len(state.ants) |->
                       IF hasUpdate(state.ants[i].id)
                       THEN Merge(state.ants[i], batch[firstFor(state.ants[i].id)].result.antUpdate)
                       ELSE state.ants[i]]
        foodsToRemove == UNION {batch[j].result.removeFood : j \in 1 .. Len(batch)}
        updatedIds == {u.id : u \in UNION {batch[j].result.foodUpdate : j \in 1 .. Len(batch)}}
        \* foodUpdates.find(u => u.id === food.id): the first pushed
        amountFor(id) ==
            LET j == CHOOSE l \in 1 .. Len(batch) :
                         /\ \E u \in batch[l].result.foodUpdate : u.id = id
                         /\ \A m \in 1 .. (l - 1) :
                                \A u \in batch[m].result.foodUpdate : u.id # id
            IN  (CHOOSE u \in batch[j].result.foodUpdate : u.id = id).amount
        keptFoods == SelectSeq(state.foods, LAMBDA f : f.id \notin foodsToRemove)
        newFoods == IF foodsToRemove # {} \/ updatedIds # {}
                    THEN [i \in 1 .. Len(keptFoods) |->
                             IF keptFoods[i].id \in updatedIds
                             THEN [keptFoods[i] EXCEPT !.amount = amountFor(keptFoods[i].id)]
                             ELSE keptFoods[i]]
                    ELSE state.foods
        newPheromones ==
            TheOne({ [k \in (DOMAIN state.pheromones) \cup (DOMAIN pheromoneUpdates) |->
                         IF k \in DOMAIN pheromoneUpdates THEN pheromoneUpdates[k]
                         ELSE state.pheromones[k]] :
                     pheromoneUpdates \in {mergePheromoneUpdates(EmptyField, batch, 1)} })
    IN  Snapshot(newAnts, newFoods, newPheromones)

(***************************************************************************)
(* Inputs                                                                  *)
(***************************************************************************)
\* operations per run
MaxTicks == 2

\* (Math.random() - 0.5) * randomTurnRange: the extremes and the middle
TurnDraws == {-1, 0, 1}
Draw == [turn : TurnDraws, follow : BOOLEAN]
NoDraws == [k \in {} |-> 0]

\* gaps between animation frames, ms
FrameGaps == {30, 600}

Pos(px, py) == [x |-> px, y |-> py]
Forager(p, d) ==
    [position |-> p, hasFood |-> FALSE, targetFood |-> Null, direction |-> d,
     foodAmount |-> NoAmount]
Carrier(p, d, target, amount) ==
    [position |-> p, hasFood |-> TRUE, targetFood |-> target, direction |-> d,
     foodAmount |-> amount]
\* the ants of a list are ant-0, ant-1, ...
WithIds(list) == [i \in 1 .. Len(list) |-> list[i] @@ [id |-> i - 1]]

Food(id, p, amount) == [id |-> id, position |-> p, amount |-> amount]
Pheromone(cx, cy, intensity, type) ==
    [position |-> Pos(cx * GRID_CELL_SIZE + (GRID_CELL_SIZE \div 2),
                      cy * GRID_CELL_SIZE + (GRID_CELL_SIZE \div 2)),
     intensity |-> intensity * IntensityScale, type |-> type]

FoodA == <<1, 0>>
FoodB == <<1, 1>>

\* single ants: at and near the nest, one and two cells east of it, across the world's edge
AntChoices ==
    { Forager(nest, 0),
      Forager(Pos(424, 300), 12),
      Forager(Pos(796, 300), 0),
      Carrier(Pos(406, 297), 0, FoodA, 2),
      Carrier(Pos(412, 300), 0, FoodA, 30),
      Carrier(Pos(415, 300), 0, FoodB, 100),
      Carrier(Pos(424, 300), 6, FoodA, NoAmount) }

AntLists ==
    {WithIds(<<a>>) : a \in AntChoices}
        \cup {WithIds(<<a, b>>) : a \in AntChoices, b \in AntChoices}

FoodLists ==
    { << >>,
      <<Food(FoodA, Pos(405, 300), 1)>>,
      <<Food(FoodA, Pos(405, 300), 2)>>,
      <<Food(FoodA, Pos(420, 300), DEFAULT_FOOD_AMOUNT), Food(FoodB, Pos(405, 300), 2)>>,
      <<Food(FoodA, Pos(2, 300), 3)>> }

Fields ==
    { EmptyField,
      [k \in {<<41, 30>>} |-> Pheromone(41, 30, 50, "toFood")],
      [k \in {<<41, 30>>, <<42, 30>>} |->
          IF k = <<41, 30>> THEN Pheromone(41, 30, 99, "toFood")
          ELSE Pheromone(42, 30, 20, "toNest")] }

(***************************************************************************)
(* SpecBehavior: executeAntBehavior applied to one ant of a drawn context  *)
(***************************************************************************)
InitBehavior ==
    /\ ants \in AntLists
    /\ foods \in FoodLists
    /\ pheromones \in Fields
    /\ isRunning = FALSE
    /\ pheromoneDepositAmount = 20
    /\ pheromoneDecayRate = 990
    /\ now = 0
    /\ lastTimeRef = 0
    /\ lastDecayTimeRef = 0
    /\ storeSpeed = 1
    /\ antCount = Len(ants)
    /\ pheromoneTrackingStrength = 7
    /\ animationFrameRef = FALSE
    /\ frameRequests = << >>
    /\ rendered = Null
    /\ prev = Snapshot(ants, foods, pheromones) @@ [draws |-> NoDraws]
    /\ results = << >>
    /\ op = "init"
    /\ ticks = 0

\* results holds the one result; prev.draws the draw used
Behave ==
    /\ op = "init"
    /\ \E i \in 1 .. Len(ants) : \E draw \in Draw :
       \E context \in {contextOf(ants[i], Snapshot(ants, foods, pheromones),
                                  pheromoneDepositAmount)} :
          /\ results' = <<[antId |-> ants[i].id, result |-> executeAntBehavior(context, draw)]>>
          /\ prev' = Snapshot(ants, foods, pheromones) @@ [draws |-> [k \in {ants[i].id} |-> draw]]
    /\ op' = "behavior"
    /\ UNCHANGED <<storeSpeed, antCount, pheromoneTrackingStrength, animationFrameRef, frameRequests, rendered,
                   ants, foods, pheromones, isRunning, pheromoneDepositAmount,
                   pheromoneDecayRate, now, lastTimeRef, lastDecayTimeRef, ticks>>

NextBehavior == Behave

SpecBehavior == InitBehavior /\ [][NextBehavior]_vars

\* the ant, the context and the result of the last Behave
behaved == CHOOSE a \in {prev.ants[i] : i \in 1 .. Len(prev.ants)} : a.id = results[1].antId
behavedResult == results[1].result

(***************************************************************************)
(* Claims about executeAntBehavior (SpecBehavior)                          *)
(***************************************************************************)
inCollectionRange(ant, food) ==
    torusDistanceSq(ant.position, food.position) < FOOD_COLLECTION_RANGE * FOOD_COLLECTION_RANGE

\* the result picks up this food: the ant fields are set and the amount drops by one
collects(result, food) ==
    /\ result.antUpdate =
           [hasFood |-> TRUE, targetFood |-> food.id, foodAmount |-> food.amount]
    /\ \/ /\ food.amount - 1 > 0
          /\ result.foodUpdate = {[id |-> food.id, amount |-> food.amount - 1]}
          /\ result.removeFood = {}
       \/ /\ food.amount - 1 <= 0
          /\ result.foodUpdate = {}
          /\ result.removeFood = {food.id}

\* C1: a foraging ant with some food closer than the collection threshold picks up
\* such a food (hasFood, targetFood, foodAmount set, amount one lower), whatever
\* else is in the food list
C1_CollectsFoodInRange ==
    (op = "behavior" /\ ~behaved.hasFood
        /\ \E i \in 1 .. Len(prev.foods) : inCollectionRange(behaved, prev.foods[i]))
    => \E i \in 1 .. Len(prev.foods) :
           inCollectionRange(behaved, prev.foods[i]) /\ collects(behavedResult, prev.foods[i])

arrived(ant) ==
    ant.hasFood /\ torusDistanceSq(ant.position, nest) < NEST_ARRIVAL_RANGE * NEST_ARRIVAL_RANGE

\* C2: a returning ant within the arrival threshold of the nest drops its food:
\* hasFood, targetFood and foodAmount are cleared, position and direction stay,
\* no pheromone is deposited and no food changes
C2_ArrivalDropsFood ==
    (op = "behavior" /\ arrived(behaved))
    => /\ behavedResult.antUpdate =
              [hasFood |-> FALSE, targetFood |-> Null, foodAmount |-> NoAmount]
       /\ Merge(behaved, behavedResult.antUpdate).position = behaved.position
       /\ Merge(behaved, behavedResult.antUpdate).direction = behaved.direction
       /\ DOMAIN behavedResult.pheromoneUpdates = {}
       /\ behavedResult.foodUpdate = {}
       /\ behavedResult.removeFood = {}

C2_Witness ==
    /\ op = "behavior"
    /\ arrived(behaved)
    /\ behaved.position # nest
    /\ DOMAIN prev.pheromones # {}
    /\ Len(prev.foods) > 0
    /\ ~Merge(behaved, behavedResult.antUpdate).hasFood

\* the cells of the result that differ from the field the ant read
depositedCells(result, field) ==
    {k \in DOMAIN result.pheromoneUpdates :
        k \notin DOMAIN field \/ result.pheromoneUpdates[k] # field[k]}

StepDraw == {[turn |-> -1, follow |-> FALSE], [turn |-> 0, follow |-> TRUE],
             [turn |-> 1, follow |-> FALSE]}
\* a carrier calls Math.random() nowhere: its entry is a constant
StepDrawsFor(antList) ==
    {draws \in [{antList[i].id : i \in 1 .. Len(antList)} -> StepDraw] :
        \A i \in 1 .. Len(antList) :
            antList[i].hasFood => draws[antList[i].id] = [turn |-> 0, follow |-> TRUE]}

Scenario(antList, foodList, field) ==
    [ants |-> WithIds(antList), foods |-> foodList, pheromones |-> field]

Scenarios ==
    { \* two foragers next to one food
      Scenario(<<Forager(nest, 0), Forager(nest, 6)>>,
               <<Food(FoodA, Pos(405, 300), 2)>>, EmptyField),
      Scenario(<<Forager(nest, 0), Forager(Pos(406, 297), 0)>>,
               <<Food(FoodA, Pos(405, 300), 3)>>, EmptyField),
      \* the last unit of a food
      Scenario(<<Forager(nest, 0)>>, <<Food(FoodA, Pos(405, 300), 1)>>, EmptyField),
      \* carriers in two cells, one of them occupied
      Scenario(<<Carrier(Pos(412, 300), 0, FoodA, 30), Carrier(Pos(424, 300), 6, FoodA, NoAmount)>>,
               << >>, [k \in {<<41, 30>>} |-> Pheromone(41, 30, 50, "toFood")]),
      \* carriers in one empty cell
      Scenario(<<Carrier(Pos(412, 300), 0, FoodA, 30), Carrier(Pos(415, 300), 0, FoodB, 100)>>,
               << >>, EmptyField),
      \* carriers in two occupied cells
      Scenario(<<Carrier(Pos(412, 300), 0, FoodA, 30), Carrier(Pos(424, 300), 6, FoodA, NoAmount)>>,
               << >>,
               [k \in {<<41, 30>>, <<42, 30>>} |->
                   IF k = <<41, 30>> THEN Pheromone(41, 30, 99, "toFood")
                   ELSE Pheromone(42, 30, 20, "toNest")]),
      \* one carrier in an empty field, and in an occupied cell
      Scenario(<<Carrier(Pos(424, 300), 6, FoodA, 2)>>,
               <<Food(FoodA, Pos(1, 300), 5)>>, EmptyField),
      Scenario(<<Carrier(Pos(424, 300), 6, FoodA, 2)>>, << >>,
               [k \in {<<42, 30>>} |-> Pheromone(42, 30, 20, "toFood")]),
      \* a forager across the world's edge from a food
      Scenario(<<Forager(Pos(796, 300), 0)>>, <<Food(FoodA, Pos(2, 300), 3)>>, EmptyField),
      \* a forager beside a trail, a carrier arriving
      Scenario(<<Forager(Pos(424, 300), 12), Carrier(Pos(406, 297), 0, FoodA, 2)>>,
               << >>, [k \in {<<41, 30>>} |-> Pheromone(41, 30, 50, "toFood")]),
      \* a forager collecting beside a carrier
      Scenario(<<Forager(nest, 0), Carrier(Pos(412, 300), 0, FoodA, 30)>>,
               <<Food(FoodA, Pos(405, 300), 2)>>, EmptyField),
      \* a carrier and a forager at one place, no food, no trail
      Scenario(<<Carrier(Pos(412, 300), 0, FoodA, 30), Forager(Pos(412, 300), 0)>>,
               << >>, EmptyField),
      \* no ants
      Scenario(<< >>, <<Food(FoodA, Pos(405, 300), 2)>>,
               [k \in {<<41, 30>>} |-> Pheromone(41, 30, 50, "toFood")]),
      \* a forager whose targetFood names a food that is gone, between two foods
      Scenario(<<[Forager(nest, 0) EXCEPT !.targetFood = <<0, 0>>]>>,
               <<Food(FoodA, Pos(420, 300), DEFAULT_FOOD_AMOUNT), Food(FoodB, Pos(405, 300), 2)>>,
               EmptyField),
      \* a forager walking out of the world's corner
      Scenario(<<Forager(Pos(799, 0), 21)>>, << >>, EmptyField),
      \* a forager that sees a food across the world's edge, out of reach
      Scenario(<<Forager(Pos(799, 300), 0)>>, <<Food(FoodA, Pos(12, 300), 2)>>, EmptyField),
      \* a forager stepping across the edge, to where two carriers stand close
      Scenario(<<Forager(Pos(1, 300), 12), Carrier(Pos(797, 300), 0, FoodA, 30),
                 Carrier(Pos(797, 300), 6, FoodB, 2)>>,
               << >>, EmptyField) }

Init ==
    /\ \E s \in Scenarios :
          /\ ants = s.ants
          /\ foods = s.foods
          /\ pheromones = s.pheromones
    /\ isRunning = TRUE
    /\ pheromoneDepositAmount = 20
    /\ pheromoneDecayRate = 990
    /\ now = 0
    /\ lastTimeRef = 0
    /\ lastDecayTimeRef = 0
    /\ storeSpeed = 1
    /\ antCount = Len(ants)
    /\ pheromoneTrackingStrength = 7
    /\ animationFrameRef = TRUE
    /\ frameRequests = << >>
    /\ rendered = Null
    /\ prev = Snapshot(ants, foods, pheromones) @@ [draws |-> NoDraws]
    /\ results = << >>
    /\ op = "init"
    /\ ticks = 0

Tick ==
    /\ ticks < MaxTicks
    /\ ticks' = ticks + 1

\* set(executeSimulationStep(config, state))
commitSimulationStep ==
    /\ \E draws \in StepDrawsFor(ants) :
       \E state \in {Snapshot(ants, foods, pheromones)} :
       \E res \in {processAllAnts(state, pheromoneDepositAmount, draws)} :
       \E next \in {Committed(state, applyBehaviorResults(state, res))} :
          /\ prev' = state @@ [draws |-> draws]
          /\ results' = res
          /\ ants' = next.ants
          /\ foods' = next.foods
          /\ pheromones' = next.pheromones
    /\ op' = "engine"
    /\ UNCHANGED <<storeSpeed, antCount, pheromoneTrackingStrength, animationFrameRef, frameRequests, rendered,
                   isRunning, pheromoneDepositAmount, pheromoneDecayRate, now, lastTimeRef,
                   lastDecayTimeRef>>

EngineStep == Tick /\ commitSimulationStep

\* a gate that lets every frame run a step
isStepDueEveryFrame(currentTime, lastTime, multiplier) == TRUE

\* deltaTime > 50 / speed
isStepDue(currentTime, lastTime, multiplier) ==
    (currentTime - lastTime) * multiplier > FRAME_DELAY_MS

\* a gate that lets every step decay
isDecayDueEveryStep(currentTime, lastDecayTime) == TRUE

\* currentTime - lastDecayTimeRef.current > 500
isDecayDue(currentTime, lastDecayTime) ==
    currentTime - lastDecayTime > PHEROMONE_DECAY_INTERVAL_MS

\* a paused frame that requests no further frame
FramePausedStopping ==
    /\ animationFrameRef
    /\ ~isRunning
    /\ \E gap \in FrameGaps : now' = now + gap
    /\ lastTimeRef' = now'
    /\ animationFrameRef' = FALSE
    /\ UNCHANGED <<frameRequests, rendered>>
    /\ op' = "paused"
    /\ UNCHANGED <<storeSpeed, antCount, pheromoneTrackingStrength,
                   ants, foods, pheromones, isRunning, pheromoneDepositAmount,
                   pheromoneDecayRate, lastDecayTimeRef, prev, results>>

\* animate while paused: the branch of a frame callback, which needs a pending request
FramePaused ==
    /\ animationFrameRef
    /\ ~isRunning
    /\ \E gap \in FrameGaps : now' = now + gap
    /\ lastTimeRef' = now'
    /\ animationFrameRef' = TRUE
    /\ UNCHANGED <<frameRequests, rendered>>
    /\ op' = "paused"
    /\ UNCHANGED <<storeSpeed, antCount, pheromoneTrackingStrength,
                   ants, foods, pheromones, isRunning, pheromoneDepositAmount,
                   pheromoneDecayRate, lastDecayTimeRef, prev, results>>

\* animate before the frame delay has passed
FrameSkip ==
    /\ animationFrameRef
    /\ isRunning
    /\ \E gap \in FrameGaps :
          /\ now' = now + gap
          /\ ~isStepDue(now', lastTimeRef, storeSpeed)
    /\ animationFrameRef' = TRUE
    /\ UNCHANGED <<frameRequests, rendered>>
    /\ op' = "skip"
    /\ UNCHANGED <<storeSpeed, antCount, pheromoneTrackingStrength,
                   ants, foods, pheromones, isRunning, pheromoneDepositAmount,
                   pheromoneDecayRate, lastTimeRef, lastDecayTimeRef, prev, results>>

\* animate running a step: the batch, its application, the decay when due
FrameStep ==
    /\ animationFrameRef
    /\ isRunning
    /\ \E gap \in FrameGaps : \E draws \in StepDrawsFor(ants) :
       \E currentTime \in {now + gap} :
          /\ isStepDue(currentTime, lastTimeRef, storeSpeed)
          /\ \E state \in {Snapshot(ants, foods, pheromones)} :
             \E batch \in {animateBatch(state, pheromoneDepositAmount, draws)} :
             \E next \in {animateApply(state, batch)} :
             \E decayDue \in {isDecayDue(currentTime, lastDecayTimeRef)} :
                /\ now' = currentTime
                /\ prev' = state @@ [draws |-> draws]
                /\ results' = batch
                /\ ants' = next.ants
                /\ foods' = next.foods
                /\ pheromones' = IF decayDue
                                 THEN decayPheromones(next.pheromones, pheromoneDecayRate)
                                 ELSE next.pheromones
                /\ lastDecayTimeRef' = IF decayDue THEN currentTime ELSE lastDecayTimeRef
                /\ op' = IF decayDue THEN "animateDecay" ELSE "animate"
    /\ lastTimeRef' = now'
    /\ animationFrameRef' = TRUE
    /\ UNCHANGED <<frameRequests, rendered>>
    /\ UNCHANGED <<storeSpeed, antCount, pheromoneTrackingStrength,
                   isRunning, pheromoneDepositAmount, pheromoneDecayRate>>

\* the store's toggleSimulation
toggleSimulation ==
    /\ isRunning' = ~isRunning
    /\ op' = "toggle"
    /\ UNCHANGED <<storeSpeed, antCount, pheromoneTrackingStrength, animationFrameRef, frameRequests, rendered,
                   ants, foods, pheromones, pheromoneDepositAmount, pheromoneDecayRate, now,
                   lastTimeRef, lastDecayTimeRef, prev, results>>

AnimatePaused == Tick /\ FramePaused

AnimateSkip == Tick /\ FrameSkip

AnimateStep == Tick /\ FrameStep

ToggleSimulation == Tick /\ toggleSimulation

Next == EngineStep \/ AnimatePaused \/ AnimateSkip \/ AnimateStep \/ ToggleSimulation

Spec == Init /\ [][Next]_vars

(***************************************************************************)
(* SpecE2E: the store is constructed, initializeSimulation makes one ant   *)
(* at the nest, addFood puts one food in its reach, then steps run.        *)
(***************************************************************************)
\* every direction Math.random() * 2 * pi can round to
Headings == 0 .. (2 * HeadingUnit - 1)

\* places closer to the nest than FOOD_COLLECTION_RANGE
NearNest == {Pos(405, 300), Pos(400, 306), Pos(393, 295), Pos(409, 300)}

\* variant: the ants are numbered from 1
initializeSimulationFromOne(count, directions) ==
    [i \in 1 .. count |->
        [id |-> i, position |-> nest, hasFood |-> FALSE, targetFood |-> Null,
         direction |-> directions[i], foodAmount |-> NoAmount]]

\* count is get().antCount
initializeSimulation(count, directions) ==
    [i \in 1 .. count |->
        [id |-> i - 1, position |-> nest, hasFood |-> FALSE, targetFood |-> Null,
         direction |-> directions[i], foodAmount |-> NoAmount]]

\* id is <<Date.now(), Math.random()>>
addFood(foodList, id, position) ==
    Append(foodList, [id |-> id, position |-> position, amount |-> DEFAULT_FOOD_AMOUNT])

InitE2E ==
    /\ ants = << >>
    /\ foods = << >>
    /\ pheromones = EmptyField
    /\ isRunning = FALSE
    /\ pheromoneDepositAmount = 20
    /\ pheromoneDecayRate = 990
    /\ now = 0
    /\ lastTimeRef = 0
    /\ lastDecayTimeRef = 0
    /\ storeSpeed = 1
    /\ antCount = 1
    /\ pheromoneTrackingStrength = 7
    /\ animationFrameRef = FALSE
    /\ frameRequests = << >>
    /\ rendered = Null
    /\ prev = Snapshot(ants, foods, pheromones) @@ [draws |-> NoDraws]
    /\ results = << >>
    /\ op = "construct"
    /\ ticks = 0

\* antCount is 1
InitializeSimulation ==
    /\ op = "construct"
    /\ \E directions \in [1 .. antCount -> Headings] :
          ants' = initializeSimulation(antCount, directions)
    /\ pheromones' = EmptyField
    /\ op' = "initialize"
    /\ UNCHANGED <<storeSpeed, antCount, pheromoneTrackingStrength, animationFrameRef, frameRequests, rendered,
                   foods, isRunning, pheromoneDepositAmount, pheromoneDecayRate, now,
                   lastTimeRef, lastDecayTimeRef, prev, results, ticks>>

AddFood ==
    /\ op = "initialize"
    /\ \E position \in NearNest : foods' = addFood(foods, <<now, 0>>, position)
    /\ op' = "addFood"
    /\ UNCHANGED <<storeSpeed, antCount, pheromoneTrackingStrength, animationFrameRef, frameRequests, rendered,
                   ants, pheromones, isRunning, pheromoneDepositAmount, pheromoneDecayRate,
                   now, lastTimeRef, lastDecayTimeRef, prev, results, ticks>>

StepE2E ==
    /\ op \in {"addFood", "engine"}
    /\ EngineStep

NextE2E == InitializeSimulation \/ AddFood \/ StepE2E

SpecE2E == InitE2E /\ [][NextE2E]_vars

(***************************************************************************)
(* SpecField: deposits and decays on a field that starts empty             *)
(***************************************************************************)
\* operations per run
MaxFieldOps == 3

FieldPositions == {Pos(412, 300), Pos(415, 300), Pos(424, 300)}
\* 2, 60 and 150, in intensity units
DepositAmounts == {2 * IntensityScale, 60 * IntensityScale, 150 * IntensityScale}

InitField ==
    /\ ants = << >>
    /\ foods = << >>
    /\ pheromones = EmptyField
    /\ isRunning = FALSE
    /\ pheromoneDepositAmount = 20
    /\ pheromoneDecayRate = 990
    /\ now = 0
    /\ lastTimeRef = 0
    /\ lastDecayTimeRef = 0
    /\ storeSpeed = 1
    /\ antCount = 50
    /\ pheromoneTrackingStrength = 7
    /\ animationFrameRef = FALSE
    /\ frameRequests = << >>
    /\ rendered = Null
    /\ prev = Snapshot(ants, foods, pheromones) @@ [draws |-> NoDraws]
    /\ results = << >>
    /\ op = "init"
    /\ ticks = 0

\* prev holds the field the operation read, results the arguments of a deposit
FieldOp ==
    /\ ticks < MaxFieldOps
    /\ ticks' = ticks + 1
    /\ prev' = Snapshot(ants, foods, pheromones) @@ [draws |-> NoDraws]
    /\ UNCHANGED <<storeSpeed, antCount, pheromoneTrackingStrength, animationFrameRef, frameRequests, rendered,
                   ants, foods, isRunning, pheromoneDepositAmount, pheromoneDecayRate, now,
                   lastTimeRef, lastDecayTimeRef>>

Deposit ==
    /\ FieldOp
    /\ \E position \in FieldPositions : \E type \in {"toFood", "toNest"} :
       \E amount \in DepositAmounts :
          /\ pheromones' = depositPheromone(pheromones, position, type, amount)
          /\ results' = <<[position |-> position, type |-> type, amount |-> amount]>>
    /\ op' = "deposit"

\* the store's decayPheromones, current revision
Decay ==
    /\ FieldOp
    /\ pheromones' = decayPheromones(pheromones, pheromoneDecayRate)
    /\ results' = << >>
    /\ op' = "decay"

\* the first revision
DecayExponential ==
    /\ FieldOp
    /\ pheromones' = decayPheromonesExponential(pheromones, pheromoneDecayRate)
    /\ results' = << >>
    /\ op' = "decayExponential"

NextField == Deposit \/ Decay \/ DecayExponential

SpecField == InitField /\ [][NextField]_vars

(***************************************************************************)
(* SpecStore: the actions of the simulation store, in any order, and       *)
(* simulation steps committed to it.  The store starts as constructed,     *)
(* with a small antCount.                                                  *)
(***************************************************************************)
\* store actions and steps per run
MaxStoreOps == 3

\* the values the controls set
AntCounts == {1, 2, 3}
Speeds == {1, 2}
\* the direction initializeSimulation draws: one stands for all, no store action
\* reads it
StoreHeadings == {17}
\* where the user puts food
StoreFoodPositions == {Pos(405, 300), Pos(420, 300)}

\* what the callers of updateAnt pass
AntUpdates ==
    { [position |-> Pos(420, 300), direction |-> 6],
      [hasFood |-> TRUE, targetFood |-> FoodA],
      [hasFood |-> FALSE, targetFood |-> Null] }

\* state.ants.map(ant => ant.id === id ? { ...ant, ...updates } : ant)
updateAnt(antList, id, updates) ==
    [i \in 1 .. Len(antList) |->
        IF antList[i].id = id THEN Merge(antList[i], updates) ELSE antList[i]]

\* state.foods.filter(f => f.id !== id)
removeFood(foodList, id) == SelectSeq(foodList, LAMBDA f : f.id # id)

\* state.foods.map(food => food.id === id ? { ...food, ...updates } : food)
updateFood(foodList, id, updates) ==
    [i \in 1 .. Len(foodList) |->
        IF foodList[i].id = id THEN Merge(foodList[i], updates) ELSE foodList[i]]

InitStore ==
    /\ ants = << >>
    /\ foods = << >>
    /\ pheromones = EmptyField
    /\ isRunning = FALSE
    /\ pheromoneDepositAmount = 20
    /\ pheromoneDecayRate = 990
    /\ now = 0
    /\ lastTimeRef = 0
    /\ lastDecayTimeRef = 0
    /\ storeSpeed = 1
    /\ antCount = 2
    /\ pheromoneTrackingStrength = 7
    /\ animationFrameRef = FALSE
    /\ frameRequests = << >>
    /\ rendered = Null
    /\ prev = Snapshot(ants, foods, pheromones) @@ [draws |-> NoDraws]
    /\ results = << >>
    /\ op = "construct"
    /\ ticks = 0

StoreTick ==
    /\ ticks < MaxStoreOps
    /\ ticks' = ticks + 1

\* what no store action touches
StoreFrame == UNCHANGED <<now, lastTimeRef, lastDecayTimeRef, animationFrameRef, frameRequests, rendered,
               prev, results>>

StoreInitialize ==
    /\ StoreTick /\ StoreFrame
    /\ \E directions \in [1 .. antCount -> StoreHeadings] :
          ants' = initializeSimulation(antCount, directions)
    /\ pheromones' = EmptyField
    /\ op' = "initializeSimulation"
    /\ UNCHANGED <<foods, isRunning, storeSpeed, antCount, pheromoneDecayRate,
                   pheromoneDepositAmount, pheromoneTrackingStrength>>

\* variant: the ants are made for the count the store held before
StoreSetAntCountStale ==
    /\ StoreTick /\ StoreFrame
    /\ \E count \in AntCounts :
          /\ antCount' = count
          /\ \E directions \in [1 .. antCount -> StoreHeadings] :
                ants' = initializeSimulation(antCount, directions)
    /\ pheromones' = EmptyField
    /\ op' = "setAntCount"
    /\ UNCHANGED <<foods, isRunning, storeSpeed, pheromoneDecayRate,
                   pheromoneDepositAmount, pheromoneTrackingStrength>>

\* set({ antCount: count }); get().initializeSimulation()
StoreSetAntCount ==
    /\ StoreTick /\ StoreFrame
    /\ \E count \in AntCounts :
          /\ antCount' = count
          /\ \E directions \in [1 .. count -> StoreHeadings] :
                ants' = initializeSimulation(count, directions)
    /\ pheromones' = EmptyField
    /\ op' = "setAntCount"
    /\ UNCHANGED <<foods, isRunning, storeSpeed, pheromoneDecayRate,
                   pheromoneDepositAmount, pheromoneTrackingStrength>>

\* variant: the food list survives
StoreResetKeepingFoods ==
    /\ StoreTick /\ StoreFrame
    /\ \E directions \in [1 .. antCount -> StoreHeadings] :
          ants' = initializeSimulation(antCount, directions)
    /\ pheromones' = EmptyField
    /\ isRunning' = FALSE
    /\ op' = "reset"
    /\ UNCHANGED <<foods, storeSpeed, antCount, pheromoneDecayRate, pheromoneDepositAmount,
                   pheromoneTrackingStrength>>

\* set({ ants: [], foods: [], pheromones: new Map(), isRunning: false });
\* get().initializeSimulation()
StoreReset ==
    /\ StoreTick /\ StoreFrame
    /\ \E directions \in [1 .. antCount -> StoreHeadings] :
          ants' = initializeSimulation(antCount, directions)
    /\ foods' = << >>
    /\ pheromones' = EmptyField
    /\ isRunning' = FALSE
    /\ op' = "reset"
    /\ UNCHANGED <<storeSpeed, antCount, pheromoneDecayRate, pheromoneDepositAmount,
                   pheromoneTrackingStrength>>

StoreToggle == StoreTick /\ toggleSimulation

\* setSpeed, setPheromoneDecayRate, setPheromoneDepositAmount,
\* setPheromoneTrackingStrength: each sets its one field
StoreSetParameter ==
    /\ StoreTick /\ StoreFrame
    /\ \/ /\ storeSpeed' \in Speeds
          /\ UNCHANGED <<pheromoneDecayRate, pheromoneDepositAmount, pheromoneTrackingStrength>>
       \/ /\ pheromoneDecayRate' \in {900, 990}
          /\ UNCHANGED <<storeSpeed, pheromoneDepositAmount, pheromoneTrackingStrength>>
       \/ /\ pheromoneDepositAmount' \in {20, 50}
          /\ UNCHANGED <<storeSpeed, pheromoneDecayRate, pheromoneTrackingStrength>>
       \/ /\ pheromoneTrackingStrength' \in {5, 7}
          /\ UNCHANGED <<storeSpeed, pheromoneDecayRate, pheromoneDepositAmount>>
    /\ op' = "setParameter"
    /\ UNCHANGED <<ants, foods, pheromones, isRunning, antCount>>

\* the id is food-<Date.now()>-<Math.random()>: a fresh one each call
StoreAddFood ==
    /\ StoreTick /\ StoreFrame
    /\ \E position \in StoreFoodPositions : foods' = addFood(foods, <<now, ticks>>, position)
    /\ op' = "addFood"
    /\ UNCHANGED <<ants, pheromones, isRunning, storeSpeed, antCount, pheromoneDecayRate,
                   pheromoneDepositAmount, pheromoneTrackingStrength>>

\* removeFood and updateFood, on the id of a food or of none
StoreChangeFood ==
    /\ StoreTick /\ StoreFrame
    /\ \E id \in {foods[i].id : i \in 1 .. Len(foods)} \cup {FoodA} :
          \/ foods' = removeFood(foods, id)
          \/ foods' = updateFood(foods, id, [amount |-> 1])
    /\ op' = "changeFood"
    /\ UNCHANGED <<ants, pheromones, isRunning, storeSpeed, antCount, pheromoneDecayRate,
                   pheromoneDepositAmount, pheromoneTrackingStrength>>

\* updateAnt on the id of an ant or of none
StoreUpdateAnt ==
    /\ StoreTick /\ StoreFrame
    /\ \E id \in 0 .. 3 : \E updates \in AntUpdates : ants' = updateAnt(ants, id, updates)
    /\ op' = "updateAnt"
    /\ UNCHANGED <<foods, pheromones, isRunning, storeSpeed, antCount, pheromoneDecayRate,
                   pheromoneDepositAmount, pheromoneTrackingStrength>>

\* updatePheromone(key, pheromone) and the store's decayPheromones
StoreChangeField ==
    /\ StoreTick /\ StoreFrame
    /\ \/ pheromones' = MapSet(pheromones, <<41, 30>>, Pheromone(41, 30, 50, "toFood"))
       \/ pheromones' = decayPheromones(pheromones, pheromoneDecayRate)
    /\ op' = "changeField"
    /\ UNCHANGED <<ants, foods, isRunning, storeSpeed, antCount, pheromoneDecayRate,
                   pheromoneDepositAmount, pheromoneTrackingStrength>>

StoreStep == StoreTick /\ commitSimulationStep

NextStore ==
    \/ StoreInitialize
    \/ StoreSetAntCount
    \/ StoreReset
    \/ StoreToggle
    \/ StoreSetParameter
    \/ StoreAddFood
    \/ StoreChangeFood
    \/ StoreUpdateAnt
    \/ StoreChangeField
    \/ StoreStep

SpecStore == InitStore /\ [][NextStore]_vars

(***************************************************************************)
(* SpecLoop: the animation loop of useSimulation on a mounted hook: frame   *)
(* callbacks at varying gaps, the user toggling the running flag.          *)
(***************************************************************************)
\* frames and toggles per run
MaxFrames == 6

InitLoop ==
    /\ ants = WithIds(<<Carrier(Pos(424, 300), 12, FoodA, 30)>>)
    /\ foods = <<Food(FoodA, Pos(2, 300), 3)>>
    /\ pheromones = [k \in {<<41, 30>>} |-> Pheromone(41, 30, 50, "toFood")]
    /\ isRunning = FALSE
    /\ pheromoneDepositAmount = 20
    /\ pheromoneDecayRate = 990
    /\ now = 0
    /\ lastTimeRef = 0
    /\ lastDecayTimeRef = 0
    /\ storeSpeed \in Speeds
    /\ antCount = Len(ants)
    /\ pheromoneTrackingStrength = 7
    /\ animationFrameRef = TRUE
    /\ frameRequests = << >>
    /\ rendered = Null
    /\ prev = Snapshot(ants, foods, pheromones) @@ [draws |-> NoDraws]
    /\ results = << >>
    /\ op = "init"
    /\ ticks = 0

LoopTick ==
    /\ ticks < MaxFrames
    /\ ticks' = ticks + 1

LoopPaused == LoopTick /\ FramePaused

LoopSkip == LoopTick /\ FrameSkip

LoopStep == LoopTick /\ FrameStep

LoopToggle == LoopTick /\ toggleSimulation

NextLoop == LoopPaused \/ LoopSkip \/ LoopStep \/ LoopToggle

SpecLoop == InitLoop /\ [][NextLoop]_vars

(***************************************************************************)
(* SpecDecay: the decay called again and again on a field that receives no *)
(* deposit.  A run keeps to one revision of decayPheromones: the store's   *)
(* action calls the current one, DecayExponentialRun the first one.        *)
(***************************************************************************)
\* 0.5, 0.9, 0.99 and 0.999
DecayRates == {500, 900, 990, 999}

\* the entry of the store's decay tests, under the key they give it
TestEntry(intensity) ==
    [k \in {<<100, 100>>} |->
        [position |-> Pos(100, 100), intensity |-> intensity, type |-> "toFood"]]

\* 100, 0.01, a cell filled above the cap by its first deposit, two trails
DecayFields ==
    { TestEntry(100 * IntensityScale),
      TestEntry(EXP_THRESHOLD),
      [k \in {<<41, 30>>} |-> Pheromone(41, 30, 150, "toNest")],
      [k \in {<<41, 30>>, <<42, 30>>} |->
          IF k = <<41, 30>> THEN Pheromone(41, 30, 60, "toFood")
          ELSE Pheromone(42, 30, 2, "toNest")] }

InitDecay ==
    /\ ants = << >>
    /\ foods = << >>
    /\ pheromones \in DecayFields
    /\ isRunning = FALSE
    /\ pheromoneDepositAmount = 20
    /\ pheromoneDecayRate \in DecayRates
    /\ now = 0
    /\ lastTimeRef = 0
    /\ lastDecayTimeRef = 0
    /\ storeSpeed = 1
    /\ antCount = 50
    /\ pheromoneTrackingStrength = 7
    /\ animationFrameRef = FALSE
    /\ frameRequests = << >>
    /\ rendered = Null
    /\ prev = Snapshot(ants, foods, pheromones) @@ [draws |-> NoDraws]
    /\ results = << >>
    /\ op = "init"
    /\ ticks = 0

\* prev holds the field the call read
DecayCall ==
    /\ prev' = Snapshot(ants, foods, pheromones) @@ [draws |-> NoDraws]
    /\ UNCHANGED <<storeSpeed, antCount, pheromoneTrackingStrength, animationFrameRef, frameRequests, rendered,
                   ants, foods, isRunning, pheromoneDepositAmount, pheromoneDecayRate, now,
                   lastTimeRef, lastDecayTimeRef, results, ticks>>

\* the store's decayPheromones
DecayRun ==
    /\ op \in {"init", "decay"}
    /\ DecayCall
    /\ pheromones' = decayPheromones(pheromones, pheromoneDecayRate)
    /\ op' = "decay"

\* the first revision
DecayExponentialRun ==
    /\ op \in {"init", "decayExponential"}
    /\ DecayCall
    /\ pheromones' = decayPheromonesExponential(pheromones, pheromoneDecayRate)
    /\ op' = "decayExponential"

NextDecay == DecayRun \/ DecayExponentialRun

\* the decay is called again as long as the program runs
SpecDecay == InitDecay /\ [][NextDecay]_vars /\ WF_vars(NextDecay)

(***************************************************************************)
(* SpecFood: food put into the store by addFood and addRandomFoods, taken  *)
(* out by removeFood, changed by updateFood, and eaten by one ant in       *)
(* simulation steps.  now is the clock Date.now() reads; calls can follow  *)
(* one another within one millisecond.                                     *)
(***************************************************************************)
\* store actions, steps and clock ticks per run
MaxFoodOps == 3

\* the counts of addRandomFoods
RandomFoodCounts == {1, 2}
\* 50 + Math.random() * 100
RandomFoodAmounts == {50, 120}

\* newFoods.push({ id: `food-${Date.now()}-${i}`, position, amount }) for
\* i = 0 .. count - 1, then [...state.foods, ...newFoods]
addRandomFoods(foodList, time, positions, amounts) ==
    foodList \o [i \in 1 .. Len(positions) |->
                    [id |-> <<time, i - 1>>, position |-> positions[i],
                     amount |-> amounts[i]]]

InitFood ==
    /\ ants = initializeSimulation(1, <<0>>)
    /\ foods = << >>
    /\ pheromones = EmptyField
    /\ isRunning = FALSE
    /\ pheromoneDepositAmount = 20
    /\ pheromoneDecayRate = 990
    /\ now = 0
    /\ lastTimeRef = 0
    /\ lastDecayTimeRef = 0
    /\ storeSpeed = 1
    /\ antCount = 1
    /\ pheromoneTrackingStrength = 7
    /\ animationFrameRef = FALSE
    /\ frameRequests = << >>
    /\ rendered = Null
    /\ prev = Snapshot(ants, foods, pheromones) @@ [draws |-> NoDraws]
    /\ results = << >>
    /\ op = "initializeSimulation"
    /\ ticks = 0

\* a store action on the foods: prev holds the snapshot it read, results its
\* arguments
FoodOp ==
    /\ ticks < MaxFoodOps
    /\ ticks' = ticks + 1
    /\ prev' = Snapshot(ants, foods, pheromones) @@ [draws |-> NoDraws]
    /\ UNCHANGED <<ants, pheromones, isRunning, pheromoneDepositAmount, pheromoneDecayRate,
                   now, lastTimeRef, lastDecayTimeRef, storeSpeed, antCount,
                   pheromoneTrackingStrength, animationFrameRef, frameRequests, rendered>>

\* a millisecond passes
FoodClock ==
    /\ ticks < MaxFoodOps
    /\ ticks' = ticks + 1
    /\ now' = now + 1
    /\ op' = "clock"
    /\ UNCHANGED <<ants, foods, pheromones, isRunning, pheromoneDepositAmount,
                   pheromoneDecayRate, lastTimeRef, lastDecayTimeRef, storeSpeed, antCount,
                   pheromoneTrackingStrength, animationFrameRef, frameRequests, rendered,
                                  prev, results>>

\* the id is food-<Date.now()>-<Math.random()>; the draw of Math.random() is a
\* fraction no other call draws, written as a negative number
FoodAdd ==
    /\ FoodOp
    /\ \E position \in StoreFoodPositions : \E id \in {<<now, -(ticks + 1)>>} :
          /\ foods' = addFood(foods, id, position)
          /\ results' = <<[id |-> id, position |-> position]>>
    /\ op' = "addFood"

FoodAddRandom ==
    /\ FoodOp
    /\ \E count \in RandomFoodCounts :
       \* Math.random() * worldWidth, Math.random() * worldHeight
       \E positions \in [1 .. count -> StoreFoodPositions] :
       \E amounts \in [1 .. count -> RandomFoodAmounts] :
          /\ foods' = addRandomFoods(foods, now, positions, amounts)
          /\ results' = <<[count |-> count]>>
    /\ op' = "addRandomFoods"

FoodRemove ==
    /\ FoodOp
    /\ \E i \in 1 .. Len(foods) :
          /\ foods' = removeFood(foods, foods[i].id)
          /\ results' = <<[id |-> foods[i].id]>>
    /\ op' = "removeFood"

FoodUpdate ==
    /\ FoodOp
    /\ \E i \in 1 .. Len(foods) :
          /\ foods' = updateFood(foods, foods[i].id, [amount |-> 1])
          /\ results' = <<[id |-> foods[i].id]>>
    /\ op' = "updateFood"

FoodStep ==
    /\ ticks < MaxFoodOps
    /\ ticks' = ticks + 1
    /\ commitSimulationStep

NextFood == FoodClock \/ FoodAdd \/ FoodAddRandom \/ FoodRemove \/ FoodUpdate \/ FoodStep

SpecFood == InitFood /\ [][NextFood]_vars

(***************************************************************************)
(* SpecCollision: avoidCollisions called for one ant that has just moved,  *)
(* among the ants of the snapshot.  ants[1] is the ant itself, where it    *)
(* stood before the move; prev holds the arguments, results the result.    *)
(***************************************************************************)
\* the most ants that crowd one place
MaxCrowd == 5

\* where the moved ant is: mid-world, in the world's corner, and a position
\* that was not wrapped
AvoidPositions == {Pos(400, 300), Pos(0, 0), Pos(803, 300)}

\* where another ant is, seen from the moved ant: on it, beside it, inside the
\* radius, at 6 and at 10
NeighbourOffsets == {<<0, 0>>, <<-1, 0>>, <<3, 4>>, <<0, -2>>, <<6, 0>>, <<10, 0>>}

\* up to two ants anywhere, or a crowd in one place
NeighbourLists ==
    UNION {[1 .. n -> NeighbourOffsets] : n \in 0 .. 2}
        \cup {[i \in 1 .. n |-> o] : n \in 3 .. MaxCrowd, o \in {<<0, 0>>, <<-1, 0>>}}

InitCollision ==
    /\ \E position \in AvoidPositions : \E direction \in {0, 5} :
       \E avoidanceRadius \in {COLLISION_AVOIDANCE_RADIUS, DEFAULT_AVOIDANCE_RADIUS} :
       \E offsets \in NeighbourLists :
          /\ ants = WithIds(<<Forager(torusWrap(Pos(position.x - ANT_SPEED, position.y)),
                                      direction)>>
                            \o [i \in 1 .. Len(offsets) |->
                                   Forager(torusWrap(Pos(position.x + offsets[i][1],
                                                         position.y + offsets[i][2])), 0)])
          /\ prev = [position |-> position, direction |-> direction, id |-> 0,
                     avoidanceRadius |-> avoidanceRadius]
    /\ foods = << >>
    /\ pheromones = EmptyField
    /\ isRunning = FALSE
    /\ pheromoneDepositAmount = 20
    /\ pheromoneDecayRate = 990
    /\ now = 0
    /\ lastTimeRef = 0
    /\ lastDecayTimeRef = 0
    /\ storeSpeed = 1
    /\ antCount = Len(ants)
    /\ pheromoneTrackingStrength = 7
    /\ animationFrameRef = FALSE
    /\ frameRequests = << >>
    /\ rendered = Null
    /\ results = << >>
    /\ op = "init"
    /\ ticks = 0

Avoid ==
    /\ op = "init"
    /\ results' = <<avoidCollisions(prev.position, prev.direction, ants, prev.id,
                                    prev.avoidanceRadius)>>
    /\ op' = "avoidCollisions"
    /\ UNCHANGED <<ants, foods, pheromones, isRunning, pheromoneDepositAmount,
                   pheromoneDecayRate, now, lastTimeRef, lastDecayTimeRef, storeSpeed,
                   antCount, pheromoneTrackingStrength, animationFrameRef, frameRequests, rendered,
                                  prev, ticks>>

SpecCollision == InitCollision /\ [][Avoid]_vars

(***************************************************************************)
(* SpecFollow: an exploring ant reads the field: followPheromone gives the *)
(* direction, shouldFollowPheromone decides whether the ant takes it.      *)
(* results holds both.                                                     *)
(***************************************************************************)
\* nothing, a trail to the nest only, a trail too weak to count, a trail ahead
\* of an ant heading east from the nest, and one trail either side of its heading
FollowFields ==
    { EmptyField,
      [k \in {<<42, 30>>} |-> Pheromone(42, 30, 50, "toNest")],
      [k \in {<<42, 30>>} |-> [Pheromone(42, 30, 0, "toFood") EXCEPT
                                  !.intensity = MINIMUM_STRENGTH]],
      [k \in {<<42, 30>>} |-> Pheromone(42, 30, 50, "toFood")],
      [k \in {<<41, 28>>, <<41, 31>>} |-> Pheromone(41, k[2], 50, "toFood")],
      [k \in {<<41, 28>>, <<41, 31>>} |->
          Pheromone(41, k[2], IF k[2] = 28 THEN 20 ELSE 50, "toFood")] }

InitFollow ==
    /\ \E position \in {nest, Pos(795, 300)} : \E direction \in Headings :
          ants = WithIds(<<Forager(position, direction)>>)
    /\ foods = << >>
    /\ pheromones \in FollowFields
    /\ isRunning = FALSE
    /\ pheromoneDepositAmount = 20
    /\ pheromoneDecayRate = 990
    /\ now = 0
    /\ lastTimeRef = 0
    /\ lastDecayTimeRef = 0
    /\ storeSpeed = 1
    /\ antCount = Len(ants)
    /\ pheromoneTrackingStrength = 7
    /\ animationFrameRef = FALSE
    /\ frameRequests = << >>
    /\ rendered = Null
    /\ prev = Snapshot(ants, foods, pheromones) @@ [draws |-> NoDraws]
    /\ results = << >>
    /\ op = "init"
    /\ ticks = 0

\* the two calls of executeExploration
Follow ==
    /\ op = "init"
    /\ \E draw \in Draw :
       \E context \in {contextOf(ants[1], Snapshot(ants, foods, pheromones),
                                  pheromoneDepositAmount)} :
       \E pheromoneDirection \in {followPheromone(context.ant.position, context.pheromones,
                                                   "toFood", context.ant.direction)} :
          /\ results' = <<[pheromoneDirection |-> pheromoneDirection,
                           follows |-> shouldFollowPheromone(context, pheromoneDirection,
                                                             draw)]>>
          /\ prev' = Snapshot(ants, foods, pheromones) @@ [draws |-> [k \in {0} |-> draw]]
    /\ op' = "followPheromone"
    /\ UNCHANGED <<ants, foods, pheromones, isRunning, pheromoneDepositAmount,
                   pheromoneDecayRate, now, lastTimeRef, lastDecayTimeRef, storeSpeed,
                   antCount, pheromoneTrackingStrength, animationFrameRef, frameRequests, rendered,
                                  ticks>>

SpecFollow == InitFollow /\ [][Follow]_vars

(***************************************************************************)
(* SpecWrap: torusWrap in the arithmetic of the program.  A JavaScript     *)
(* number is a binary floating-point value: % is exact, and a sum is       *)
(* rounded to the nearest value with a significand of 53 bits, ties to the *)
(* even one.  The model keeps the rule and a significand of Precision      *)
(* bits, on whole-numbered coordinates.                                    *)
(***************************************************************************)
\* bits of the significand
Precision == 8

\* the unit in the last place of a value of magnitude n
RECURSIVE UlpFrom(_, _)
UlpFrom(n, ulp) ==
    IF n < (2 ^ Precision) * ulp THEN ulp ELSE UlpFrom(n, 2 * ulp)

\* a sum rounded to the nearest representable value, ties to even
Rounded(v) ==
    TheOne({ TheOne({ (IF v < 0 THEN -1 ELSE 1) * ulp
                          * (IF 2 * (Abs(v) % ulp) > ulp
                                 \/ (2 * (Abs(v) % ulp) = ulp /\ q % 2 = 1)
                             THEN q + 1 ELSE q) :
                      q \in {Abs(v) \div ulp} }) :
             ulp \in {UlpFrom(Abs(v), 1)} })

\* ((x % worldWidth) + worldWidth) % worldWidth, and the same for y
torusWrapRounded(position, width, height) ==
    [x |-> JsMod(Rounded(JsMod(position.x, width) + width), width),
     y |-> JsMod(Rounded(JsMod(position.y, height) + height), height)]

\* the world of the program and a small one
WorldSizes == {<<worldWidth, worldHeight>>, <<100, 60>>}

\* coordinates left of, inside and right of the world, as far as numbers can
\* tell them apart
WrapCoordinates == {Rounded(v) : v \in (-2 * worldWidth) .. (2 * worldWidth)}

InitWrap ==
    /\ \E x \in WrapCoordinates : \E y \in {-3, 0, 300, 600} : \E size \in WorldSizes :
          prev = [position |-> Pos(x, y), worldWidth |-> size[1], worldHeight |-> size[2]]
    /\ ants = << >>
    /\ foods = << >>
    /\ pheromones = EmptyField
    /\ isRunning = FALSE
    /\ pheromoneDepositAmount = 20
    /\ pheromoneDecayRate = 990
    /\ now = 0
    /\ lastTimeRef = 0
    /\ lastDecayTimeRef = 0
    /\ storeSpeed = 1
    /\ antCount = 50
    /\ pheromoneTrackingStrength = 7
    /\ animationFrameRef = FALSE
    /\ frameRequests = << >>
    /\ rendered = Null
    /\ results = << >>
    /\ op = "init"
    /\ ticks = 0

\* torusWrap(p), then torusWrap of what it returned
Wrap ==
    /\ \/ /\ op = "init"
          /\ results' = <<torusWrapRounded(prev.position, prev.worldWidth, prev.worldHeight)>>
          /\ op' = "torusWrap"
       \/ /\ op = "torusWrap"
          /\ results' = Append(results,
                               torusWrapRounded(results[1], prev.worldWidth, prev.worldHeight))
          /\ op' = "torusWrapAgain"
    /\ UNCHANGED <<ants, foods, pheromones, isRunning, pheromoneDepositAmount,
                   pheromoneDecayRate, now, lastTimeRef, lastDecayTimeRef, storeSpeed,
                   antCount, pheromoneTrackingStrength, animationFrameRef, frameRequests, rendered,
                                  prev, ticks>>

SpecWrap == InitWrap /\ [][Wrap]_vars

(***************************************************************************)
(* SpecReturn: two carriers walk home from opposite sides of the nest,     *)
(* step after step, as long as one of them carries food.  The loop keeps   *)
(* stepping while the simulation runs.                                     *)
(***************************************************************************)
\* more steps than the longest way home takes
MaxReturnSteps == 300

\* where the first carrier starts: near the nest, inside the arrival range and
\* at the world's edge; the second starts opposite
ReturnStarts == {Pos(424, 300), Pos(430, 340), Pos(409, 303), Pos(1, 300)}

InitReturn ==
    /\ \E start \in ReturnStarts :
          ants = WithIds(<<Carrier(start, 0, FoodA, 30),
                           Carrier(Pos(worldWidth - start.x, worldHeight - start.y), 0,
                                   FoodA, 30)>>)
    /\ foods = << >>
    /\ pheromones = EmptyField
    /\ isRunning = TRUE
    /\ pheromoneDepositAmount = 20
    /\ pheromoneDecayRate = 990
    /\ now = 0
    /\ lastTimeRef = 0
    /\ lastDecayTimeRef = 0
    /\ storeSpeed = 1
    /\ antCount = Len(ants)
    /\ pheromoneTrackingStrength = 7
    /\ animationFrameRef = FALSE
    /\ frameRequests = << >>
    /\ rendered = Null
    /\ prev = Snapshot(ants, foods, pheromones) @@ [draws |-> NoDraws]
    /\ results = << >>
    /\ op = "init"
    /\ ticks = 0

ReturnStep ==
    /\ ticks < MaxReturnSteps
    /\ \E i \in 1 .. Len(ants) : ants[i].hasFood
    /\ ticks' = ticks + 1
    /\ commitSimulationStep

SpecReturn == InitReturn /\ [][ReturnStep]_vars /\ WF_vars(ReturnStep)

(***************************************************************************)
(* SpecHook: the component that calls useSimulation.  A render reads the    *)
(* store and makes an animate that closes over what it read; the effect     *)
(* requests a frame for that animate and its cleanup cancels the handle in  *)
(* animationFrameRef; the browser runs the callbacks of its list; a user    *)
(* acts on the store between frames.  React renders a changed store and     *)
(* runs the effects before the browser runs the next frame or event.        *)
(***************************************************************************)
\* mounts, renders, frames and user actions per run
MaxHookOps == 7

\* const { isRunning, speed, ants, foods, pheromones, ... } = useSimulationStore()
useSimulationStore ==
    [isRunning |-> isRunning, speed |-> storeSpeed, ants |-> ants, foods |-> foods,
     pheromones |-> pheromones, pheromoneDecayRate |-> pheromoneDecayRate,
     pheromoneDepositAmount |-> pheromoneDepositAmount]

\* [isRunning, speed, ants, foods, pheromones]
effectDeps(values) ==
    <<values.isRunning, values.speed, values.ants, values.foods, values.pheromones>>

\* the browser's requestAnimationFrame: the callback joins the list under a new handle
requestAnimationFrame(list, handle, animate) ==
    Append(list, [handle |-> handle, animate |-> animate])

\* a cancel that leaves the list alone
cancelNothing(list, handle) == list

\* the browser's cancelAnimationFrame
cancelAnimationFrame(list, handle) == SelectSeq(list, LAMBDA r : r.handle # handle)

\* if (animationFrameRef.current) cancelAnimationFrame(animationFrameRef.current)
effectCleanup(list) ==
    IF animationFrameRef # 0 THEN cancelAnimationFrame(list, animationFrameRef) ELSE list

mounted == rendered # Null

\* the store has changed since the component's last render
renderDue == mounted /\ rendered # useSimulationStore

InitHook ==
    /\ ants = WithIds(<<Carrier(Pos(424, 300), 12, FoodA, 30)>>)
    /\ foods = <<Food(FoodA, Pos(2, 300), 3)>>
    /\ pheromones = [k \in {<<41, 30>>} |-> Pheromone(41, 30, 50, "toFood")]
    /\ isRunning \in BOOLEAN
    /\ pheromoneDepositAmount = 20
    /\ pheromoneDecayRate = 990
    /\ now = 0
    /\ lastTimeRef = 0
    /\ lastDecayTimeRef = 0
    /\ storeSpeed = 1
    /\ antCount = Len(ants)
    /\ pheromoneTrackingStrength = 7
    /\ animationFrameRef = 0
    /\ frameRequests = << >>
    /\ rendered = Null
    /\ prev = Snapshot(ants, foods, pheromones) @@ [draws |-> NoDraws]
    /\ results = << >>
    /\ op = "init"
    /\ ticks = 0

\* every operation takes the next handle the browser would give
HookTick ==
    /\ ticks < MaxHookOps
    /\ ticks' = ticks + 1

HookStore ==
    UNCHANGED <<ants, foods, pheromones, isRunning, storeSpeed, antCount, pheromoneDecayRate,
                pheromoneDepositAmount, pheromoneTrackingStrength>>

\* the first render of the component and its effect
HookMount ==
    /\ HookTick
    /\ ~mounted
    /\ rendered' = useSimulationStore
    /\ lastTimeRef' = 0
    /\ lastDecayTimeRef' = 0
    /\ frameRequests' = requestAnimationFrame(frameRequests, ticks', useSimulationStore)
    /\ animationFrameRef' = ticks'
    /\ op' = "mount"
    /\ HookStore
    /\ UNCHANGED <<now, prev, results>>

\* a render after the store changed; with a changed dependency the cleanup of
\* the last effect and the effect of this render
HookRender ==
    /\ HookTick
    /\ renderDue
    /\ rendered' = useSimulationStore
    /\ IF effectDeps(rendered) # effectDeps(useSimulationStore)
       THEN /\ frameRequests' = requestAnimationFrame(effectCleanup(frameRequests), ticks',
                                                      useSimulationStore)
            /\ animationFrameRef' = ticks'
            /\ op' = "effect"
       ELSE /\ UNCHANGED <<frameRequests, animationFrameRef>>
            /\ op' = "render"
    /\ HookStore
    /\ UNCHANGED <<now, lastTimeRef, lastDecayTimeRef, prev, results>>

\* the cleanup of the last effect when the component goes
HookUnmount ==
    /\ HookTick
    /\ mounted
    /\ ~renderDue
    /\ frameRequests' = effectCleanup(frameRequests)
    /\ rendered' = Null
    /\ op' = "unmount"
    /\ HookStore
    /\ UNCHANGED <<now, lastTimeRef, lastDecayTimeRef, animationFrameRef, prev, results>>

\* the browser runs the first callback of its list: animate of a paused render
HookFramePaused ==
    /\ HookTick
    /\ frameRequests # << >>
    /\ ~renderDue
    /\ \E callback \in {Head(frameRequests)} :
          /\ ~callback.animate.isRunning
          /\ frameRequests' = requestAnimationFrame(Tail(frameRequests), ticks',
                                                    callback.animate)
    /\ \E gap \in FrameGaps : now' = now + gap
    /\ lastTimeRef' = now'
    /\ animationFrameRef' = ticks'
    /\ op' = "paused"
    /\ HookStore
    /\ UNCHANGED <<lastDecayTimeRef, rendered, prev, results>>

\* animate of a running render before the frame delay has passed
HookFrameSkip ==
    /\ HookTick
    /\ frameRequests # << >>
    /\ ~renderDue
    /\ \E callback \in {Head(frameRequests)} :
          /\ callback.animate.isRunning
          /\ \E gap \in FrameGaps :
                /\ now' = now + gap
                /\ ~isStepDue(now', lastTimeRef, callback.animate.speed)
          /\ frameRequests' = requestAnimationFrame(Tail(frameRequests), ticks',
                                                    callback.animate)
    /\ animationFrameRef' = ticks'
    /\ op' = "skip"
    /\ HookStore
    /\ UNCHANGED <<lastTimeRef, lastDecayTimeRef, rendered, prev, results>>

\* animate of a running render when a step is due: the batch from the values
\* the render read, one setState on the state of the store, the next request
HookFrameStep ==
    /\ HookTick
    /\ frameRequests # << >>
    /\ ~renderDue
    /\ \E callback \in {Head(frameRequests)} :
       \E values \in {callback.animate} :
       \E gap \in FrameGaps : \E draws \in StepDrawsFor(values.ants) :
       \E currentTime \in {now + gap} :
          /\ values.isRunning
          /\ isStepDue(currentTime, lastTimeRef, values.speed)
          /\ \E read \in {Snapshot(values.ants, values.foods, values.pheromones)} :
             \E batch \in {animateBatch(read, values.pheromoneDepositAmount, draws)} :
             \E next \in {animateApply(Snapshot(ants, foods, pheromones), batch)} :
             \E decayDue \in {isDecayDue(currentTime, lastDecayTimeRef)} :
                /\ now' = currentTime
                /\ prev' = read @@ [draws |-> draws]
                /\ results' = batch
                /\ ants' = next.ants
                /\ foods' = next.foods
                /\ pheromones' = IF decayDue
                                 THEN decayPheromones(next.pheromones,
                                                      values.pheromoneDecayRate)
                                 ELSE next.pheromones
                /\ lastDecayTimeRef' = IF decayDue THEN currentTime ELSE lastDecayTimeRef
                /\ op' = IF decayDue THEN "animateDecay" ELSE "animate"
          /\ frameRequests' = requestAnimationFrame(Tail(frameRequests), ticks', values)
    /\ lastTimeRef' = now'
    /\ animationFrameRef' = ticks'
    /\ UNCHANGED <<rendered, storeSpeed, antCount, pheromoneTrackingStrength,
                   isRunning, pheromoneDepositAmount, pheromoneDecayRate>>

\* the user starts or stops the simulation
HookToggle ==
    /\ HookTick
    /\ ~renderDue
    /\ toggleSimulation

\* setSpeed, a dependency of the effect; setPheromoneDecayRate, none of them
HookSetParameter ==
    /\ HookTick
    /\ ~renderDue
    /\ \/ /\ storeSpeed' \in Speeds \ {storeSpeed}
          /\ UNCHANGED pheromoneDecayRate
       \/ /\ pheromoneDecayRate' \in {900, 990} \ {pheromoneDecayRate}
          /\ UNCHANGED storeSpeed
    /\ op' = "setParameter"
    /\ UNCHANGED <<ants, foods, pheromones, isRunning, antCount, pheromoneDepositAmount,
                   pheromoneTrackingStrength, now, lastTimeRef, lastDecayTimeRef,
                   animationFrameRef, frameRequests, rendered, prev, results>>

\* the user places a food
HookAddFood ==
    /\ HookTick
    /\ ~renderDue
    /\ foods' = addFood(foods, <<now, ticks>>, Pos(420, 300))
    /\ op' = "addFood"
    /\ UNCHANGED <<ants, pheromones, isRunning, storeSpeed, antCount, pheromoneDecayRate,
                   pheromoneDepositAmount, pheromoneTrackingStrength, now, lastTimeRef,
                   lastDecayTimeRef, animationFrameRef, frameRequests, rendered, prev,
                   results>>

NextHook ==
    \/ HookMount
    \/ HookRender
    \/ HookUnmount
    \/ HookFramePaused
    \/ HookFrameSkip
    \/ HookFrameStep
    \/ HookToggle
    \/ HookSetParameter
    \/ HookAddFood

SpecHook == InitHook /\ [][NextHook]_vars

(***************************************************************************)
(* Claims about one step (Spec)                                            *)
(***************************************************************************)
stepped == op \in {"engine", "animate", "animateDecay"}
prevState == Snapshot(prev.ants, prev.foods, prev.pheromones)

\* ant i made the Foraging -> Returning transition on the food in the last step
pickedUp(i, foodId) ==
    ~prev.ants[i].hasFood /\ ants[i].hasFood /\ ants[i].targetFood = foodId
pickups(foodId) == Cardinality({i \in 1 .. Len(prev.ants) : pickedUp(i, foodId)})

present(foodId) == \E m \in 1 .. Len(foods) : foods[m].id = foodId
amountNow(foodId) == foods[CHOOSE m \in 1 .. Len(foods) : foods[m].id = foodId].amount

\* C3: when k ants pick up the same food of amount a in one step, the committed
\* amount is a - k, and the food is gone if a - k <= 0
C3_OneUnitPerPickup ==
    stepped
    => \A j \in 1 .. Len(prev.foods) :
          \A k \in {pickups(prev.foods[j].id)} :
             k >= 1
             => IF prev.foods[j].amount - k <= 0 THEN ~present(prev.foods[j].id)
                ELSE /\ present(prev.foods[j].id)
                     /\ amountNow(prev.foods[j].id) = prev.foods[j].amount - k

\* C4: a collected food of amount a is kept with amount a - 1 if that is positive
\* and removed otherwise; every food of the snapshot has a positive amount
C4_FoodsStayPositive ==
    /\ \A m \in 1 .. Len(foods) : foods[m].amount > 0
    /\ stepped
       => \A j \in 1 .. Len(prev.foods) :
             pickups(prev.foods[j].id) >= 1
             => IF prev.foods[j].amount - 1 > 0
                THEN /\ present(prev.foods[j].id)
                     /\ amountNow(prev.foods[j].id) = prev.foods[j].amount - 1
                ELSE ~present(prev.foods[j].id)

C4_Witness ==
    /\ op = "engine"
    /\ \E j \in 1 .. Len(prev.foods) :
          /\ prev.foods[j].amount = 1
          /\ pickups(prev.foods[j].id) = 1
          /\ ~present(prev.foods[j].id)

\* the ants that deposit in the cell in the step taken from the previous snapshot
depositors(cell) ==
    {i \in 1 .. Len(prev.ants) :
        /\ prev.ants[i].hasFood
        /\ ~arrived(prev.ants[i])
        /\ createPheromoneKey(prev.ants[i].position) = cell}
depositCells == {createPheromoneKey(prev.ants[i].position) : i \in 1 .. Len(prev.ants)}

\* C5: after a step, every cell in which a returning ant deposited holds
\* min(100, its snapshot intensity + the deposit of the last ant that deposited there)
C5_DepositsMerged ==
    op \in {"engine", "animate"}
    => \A cell \in depositCells :
          depositors(cell) # {}
          => \A last \in {CHOOSE i \in depositors(cell) : \A l \in depositors(cell) : l <= i} :
                /\ cell \in DOMAIN pheromones
                /\ pheromones[cell].intensity =
                       Min(MAX_INTENSITY * IntensityScale,
                           (IF cell \in DOMAIN prev.pheromones
                            THEN prev.pheromones[cell].intensity ELSE 0)
                               + depositAmount(contextOf(prev.ants[last], prevState,
                                                         pheromoneDepositAmount)))

ListOrders(n) == {p \in [1 .. n -> 1 .. n] : \A i, j \in 1 .. n : p[i] = p[j] => i = j}
permuted(state, p) == [state EXCEPT !.ants = [i \in 1 .. Len(state.ants) |-> state.ants[p[i]]]]
sameOutcome(a, b) ==
    /\ {a.ants[i] : i \in 1 .. Len(a.ants)} = {b.ants[i] : i \in 1 .. Len(b.ants)}
    /\ a.foods = b.foods
    /\ a.pheromones = b.pheromones

\* C6: with the snapshot and the draw of each ant fixed, every order of the ant
\* list gives the same ants (by id), foods and field
C6_OrderIndependent ==
    \A current \in {Snapshot(ants, foods, pheromones)} :
       /\ op = "engine"
          => \A p \in ListOrders(Len(prev.ants)) :
                \A listed \in {permuted(prevState, p)} :
                   sameOutcome(current,
                               Committed(listed, executeSimulationStep(
                                   listed, pheromoneDepositAmount, prev.draws)))
       /\ op = "animate"
          => \A p \in ListOrders(Len(prev.ants)) :
                \A listed \in {permuted(prevState, p)} :
                   sameOutcome(current,
                               animateApply(listed, animateBatch(
                                   listed, pheromoneDepositAmount, prev.draws)))

\* C7: the result of every ant of a step is the behaviour computed from the
\* snapshot the step started from, and each committed ant is its snapshot ant
\* with its own result applied
C7_ReadIsolation ==
    stepped
    => /\ Len(results) = Len(prev.ants)
       /\ Len(ants) = Len(prev.ants)
       /\ \A i \in 1 .. Len(prev.ants) :
             \A context \in {contextOf(prev.ants[i], prevState, pheromoneDepositAmount)} :
             \A own \in {IF op = "engine"
                         THEN executeAntBehavior(context, prev.draws[prev.ants[i].id])
                         ELSE animateAnt(context, prev.draws[prev.ants[i].id])} :
                /\ results[i] = [antId |-> prev.ants[i].id, result |-> own]
                /\ ants[i] = Merge(prev.ants[i], own.antUpdate)

\* two ants picked up the same food, each recording the snapshot amount
C7_Witness ==
    /\ op = "engine"
    /\ \E i, j \in 1 .. Len(prev.ants) : \E f \in 1 .. Len(prev.foods) :
          /\ i # j
          /\ pickedUp(i, prev.foods[f].id)
          /\ pickedUp(j, prev.foods[f].id)
          /\ ants[i].foodAmount = prev.foods[f].amount
          /\ ants[j].foodAmount = prev.foods[f].amount

(***************************************************************************)
(* Claims about the end-to-end scenario (SpecE2E)                          *)
(***************************************************************************)
afterFirstStep ==
    (op = "engine" /\ ticks = 1)
    => /\ ants[1].hasFood
       /\ Len(foods) = 1
       /\ foods[1].amount = prev.foods[1].amount - 1
       /\ pheromones = EmptyField

\* C9 as stated: after the first step the ant carries food, the food is one
\* lower and the field is empty; when a later step clears hasFood, the field
\* holds a toFood entry
C9_TrailOnReturn ==
    /\ afterFirstStep
    /\ (op = "engine" /\ prev.ants[1].hasFood /\ ~ants[1].hasFood)
       => \E k \in DOMAIN pheromones : pheromones[k].type = "toFood"

\* C9 amended: after the first step the ant carries food, the food is one lower
\* and the field is empty; the second step drops the food where the ant stands,
\* at the nest, and the field is still empty
C9_DropsWithoutTrail ==
    /\ afterFirstStep
    /\ (op = "engine" /\ ticks = 2)
       => /\ prev.ants[1].hasFood
          /\ ~ants[1].hasFood
          /\ ants[1].targetFood = Null
          /\ ants[1].position = nest
          /\ pheromones = EmptyField

C9_Witness ==
    /\ op = "engine"
    /\ ticks = 2
    /\ prev.ants[1].hasFood
    /\ ~ants[1].hasFood
    /\ foods[1].amount = DEFAULT_FOOD_AMOUNT - 1

(***************************************************************************)
(* Claims about the field (SpecField)                                      *)
(***************************************************************************)
\* C10: after any deposits and decays from the empty field, every intensity
\* lies in [0, 100]
C10_IntensityBounded ==
    \A k \in DOMAIN pheromones :
        /\ pheromones[k].intensity >= 0
        /\ pheromones[k].intensity <= MAX_INTENSITY * IntensityScale

(***************************************************************************)
(* Claims about the field operations (SpecField)                           *)
(***************************************************************************)
\* the arguments of the last deposit
deposited == results[1]

\* C11: depositPheromone(field, position, type, amount) changes exactly the cell
\* (floor(x / 10), floor(y / 10)).  An occupied cell gets the intensity
\* min(100, old + amount) and keeps its stored type and position, whatever type
\* is deposited; an empty cell gets a new entry at the cell centre with
\* intensity = amount and the deposited type.  Every other cell of the returned
\* field equals the input; the input (prev.pheromones) is a value of its own,
\* as the code copies the map before it sets the cell.
C11_DepositChangesOneCell ==
    op = "deposit" =>
        LET cell == <<deposited.position.x \div 10, deposited.position.y \div 10>>
            old == prev.pheromones
        IN  /\ DOMAIN pheromones = DOMAIN old \cup {cell}
            /\ \A k \in DOMAIN old : k # cell => pheromones[k] = old[k]
            /\ cell \in DOMAIN old =>
                  /\ pheromones[cell].intensity
                        = Min(100 * IntensityScale, old[cell].intensity + deposited.amount)
                  /\ pheromones[cell].type = old[cell].type
                  /\ pheromones[cell].position = old[cell].position
            /\ cell \notin DOMAIN old =>
                  /\ pheromones[cell].intensity = deposited.amount
                  /\ pheromones[cell].type = deposited.type
                  /\ pheromones[cell].position = Pos(cell[1] * 10 + 5, cell[2] * 10 + 5)

\* a deposit of the other type into an occupied cell beside another entry
C11_Witness ==
    /\ op = "deposit"
    /\ createPheromoneKey(deposited.position) \in DOMAIN prev.pheromones
    /\ prev.pheromones[createPheromoneKey(deposited.position)].type # deposited.type
    /\ Cardinality(DOMAIN prev.pheromones) = 2

(***************************************************************************)
(* Claims about repeated decay (SpecDecay)                                 *)
(***************************************************************************)
decayed == op \in {"decay", "decayExponential"}
\* the threshold of the revision that ran
thresholdOf(revision) ==
    IF revision = "decay" THEN MIN_INTENSITY_THRESHOLD ELSE EXP_THRESHOLD

\* what one decay call does to the field it read
lowersAndPrunes ==
    decayed =>
        /\ DOMAIN pheromones \subseteq DOMAIN prev.pheromones
        /\ \A k \in DOMAIN pheromones :
              /\ pheromones[k].intensity < prev.pheromones[k].intensity
              /\ pheromones[k].intensity > thresholdOf(op)
              /\ pheromones[k].type = prev.pheromones[k].type
              /\ pheromones[k].position = prev.pheromones[k].position

\* C12: for a decay rate r < 1 each decay call strictly lowers the intensity of
\* every surviving entry, adds no entry, and changes no entry's type or
\* position; no entry survives with an intensity at or below the threshold;
\* with no deposits a removed cell stays absent, and after finitely many decay
\* calls the field is empty for good.
C12_DecayLowersAndPrunes ==
    /\ []lowersAndPrunes
    /\ [][DOMAIN pheromones' \subseteq DOMAIN pheromones]_vars
    /\ <>[](pheromones = EmptyField)

\* a call that lowered one entry and removed another
C12_Witness ==
    /\ decayed
    /\ pheromones # EmptyField
    /\ DOMAIN pheromones # DOMAIN prev.pheromones

\* C13: the store's decayPheromones at rate r replaces each intensity I by I * r
\* and keeps the entry at its key (100 at r = 0.9 becomes about 90); an entry
\* whose product is not above 0.01 is removed (0.01 at r = 0.5).
C13_StoreDecayMultiplies ==
    op = "decay" =>
        \A k \in DOMAIN prev.pheromones :
            LET product == (prev.pheromones[k].intensity * pheromoneDecayRate) \div 1000
            IN  IF product > EXP_THRESHOLD
                THEN /\ k \in DOMAIN pheromones
                     /\ Abs(pheromones[k].intensity - product) <= 1
                ELSE k \notin DOMAIN pheromones

(***************************************************************************)
(* Claims about the animation loop (SpecLoop)                              *)
(***************************************************************************)
\* a frame callback ran: only frames advance the frame time
frameRan == now' # now
\* the callback took the step branch
stepRan == op' \in {"animate", "animateDecay"}
worldChanged == ants' # ants \/ foods' # foods \/ pheromones' # pheromones
\* the field of the step's setState before any decay
mergedField == animateApply(Snapshot(ants, foods, pheromones), results').pheromones
\* the step decayed: only a decay moves lastDecayTimeRef, to a later frame time
decayRan == lastDecayTimeRef' # lastDecayTimeRef

C15_PausedFramesIdle ==
    [][ frameRan =>
          /\ animationFrameRef'
          /\ ~isRunning => ~worldChanged /\ op' = "paused"
      ]_vars

\* three operations, none of them a step, the last a paused frame
C15_Witness ==
    /\ op = "paused"
    /\ ticks >= 3
    /\ now >= 90
    /\ animationFrameRef
    /\ prev.draws = NoDraws

\* C16: a frame callback runs a step only if the simulation is running and more
\* than 50 / speed ms have passed since the last step time; it runs one step
\* and sets the last step time to the frame time.  A frame that is not due
\* leaves the last step time alone.  While paused the last step time follows
\* the frame time, so the first frames after resuming are measured from the
\* last paused frame.
C16_StepGate ==
    [][ frameRan =>
          /\ (stepRan \/ worldChanged) =>
                /\ isRunning
                /\ (now' - lastTimeRef) * storeSpeed > 50
                /\ lastTimeRef' = now'
                /\ ants' = animateApply(Snapshot(ants, foods, pheromones), results').ants
                /\ results' = animateBatch(Snapshot(ants, foods, pheromones),
                                           pheromoneDepositAmount, prev'.draws)
          /\ (isRunning /\ (now' - lastTimeRef) * storeSpeed > 50) => stepRan
          /\ (isRunning /\ ~stepRan) => lastTimeRef' = lastTimeRef
          /\ ~isRunning => lastTimeRef' = now'
      ]_vars

\* a frame skipped after resuming: no step has run, the last step time is that
\* of a paused frame
C16_Witness ==
    /\ op = "skip"
    /\ isRunning
    /\ prev.draws = NoDraws
    /\ lastTimeRef > 0
    /\ lastTimeRef < now

(***************************************************************************)
(* Claims about the totality of the step (Spec)                            *)
(***************************************************************************)
\* a world every field of which has a value of its type
wellFormed(antList, foodList, field) ==
    /\ \A i \in 1 .. Len(antList) :
          /\ antList[i].position.x \in 0 .. (worldWidth - 1)
          /\ antList[i].position.y \in 0 .. (worldHeight - 1)
          /\ antList[i].direction \in Int
          /\ antList[i].hasFood \in BOOLEAN
          /\ antList[i].foodAmount \in Int
    /\ \A i \in 1 .. Len(foodList) : foodList[i].amount \in Int
    /\ \A k \in DOMAIN field :
          /\ field[k].intensity \in Int
          /\ field[k].type \in {"toFood", "toNest"}

\* targetFood values: none, a food of the list, a food that is gone
TargetValues == {Null, FoodA, FoodB, <<0, 0>>}

\* the state the step read, with another targetFood for ant i
retargeted(i, target) ==
    [ants |-> [prev.ants EXCEPT ![i].targetFood = target],
     foods |-> prev.foods, pheromones |-> prev.pheromones]

\* C17: executeSimulationStep returns a well-formed update for every input: with
\* no ants the update is empty and the world stays as it is; with an empty food
\* list no ant becomes Returning; an empty field, ants at one position and ants
\* whose targetFood names a food that is gone are handled like any other, and
\* an ant's result does not depend on its targetFood.
C17_StepIsTotal ==
    op = "engine" =>
        /\ Len(ants) = Len(prev.ants)
        /\ wellFormed(ants, foods, pheromones)
        /\ prev.ants = << >> =>
              /\ DOMAIN executeSimulationStep(Snapshot(prev.ants, prev.foods, prev.pheromones),
                                              pheromoneDepositAmount, prev.draws) = {}
              /\ Snapshot(ants, foods, pheromones)
                    = Snapshot(prev.ants, prev.foods, prev.pheromones)
        /\ prev.foods = << >> =>
              \A i \in 1 .. Len(ants) : ants[i].hasFood => prev.ants[i].hasFood
        /\ \A i \in 1 .. Len(prev.ants) : \A target \in TargetValues :
              processAllAnts(retargeted(i, target), pheromoneDepositAmount, prev.draws)
                  = results

\* a step of two ants at one position, with no food and no trail, one of them
\* with the targetFood of a food that is gone
C17_Witness ==
    /\ op = "engine"
    /\ Len(prev.ants) = 2
    /\ prev.ants[1].position = prev.ants[2].position
    /\ prev.foods = << >>
    /\ prev.pheromones = EmptyField
    /\ \E i \in 1 .. 2 :
          /\ prev.ants[i].targetFood # Null
          /\ \A j \in 1 .. Len(prev.foods) : prev.foods[j].id # prev.ants[i].targetFood

(***************************************************************************)
(* Claims about the store (SpecStore)                                      *)
(***************************************************************************)
\* the ants initializeSimulation makes for a count: ant-0 .. ant-(count-1), at
\* the nest, without food
freshAnts(antList, count) ==
    /\ Len(antList) = count
    /\ \A i \in 1 .. Len(antList) :
          /\ antList[i].id = i - 1
          /\ antList[i].position = [x |-> 400, y |-> 300]
          /\ antList[i].hasFood = FALSE
          /\ antList[i].targetFood = Null
          /\ antList[i].foodAmount = NoAmount

\* the parameters the user configures; the world size and the nest are fixed
parameters ==
    <<antCount, storeSpeed, pheromoneDecayRate, pheromoneDepositAmount,
      pheromoneTrackingStrength>>

\* C18: initializeSimulation produces exactly antCount ants with the ids ant-0 ..
\* ant-(antCount-1), each at the nest with hasFood = false, targetFood = null
\* and foodAmount = null, and an empty pheromone field; it leaves the food
\* list, the running flag and all parameters as they were.
C18_InitializeMakesFreshAnts ==
    [][ op' = "initializeSimulation" =>
          /\ freshAnts(ants', antCount)
          /\ pheromones' = EmptyField
          /\ foods' = foods
          /\ isRunning' = isRunning
          /\ parameters' = parameters
      ]_vars

\* initializeSimulation as the third operation, on a running store that holds
\* food
C18_Witness ==
    /\ op = "initializeSimulation"
    /\ ticks = 3
    /\ foods # << >>
    /\ isRunning
    /\ Len(ants) = 2

\* C19: reset, from any state of the store, leaves no foods, an empty pheromone
\* field, isRunning = false and exactly antCount freshly initialised ants at the
\* nest; the configured parameters are as they were.
C19_ResetClearsTheWorld ==
    [][ op' = "reset" =>
          /\ foods' = << >>
          /\ pheromones' = EmptyField
          /\ isRunning' = FALSE
          /\ freshAnts(ants', antCount)
          /\ parameters' = parameters
      ]_vars

\* a reset after setAntCount(3) and a parameter change
C19_Witness ==
    /\ op = "reset"
    /\ Len(ants) = 3
    /\ parameters # <<3, 1, 990, 20, 7>>
    /\ foods = << >>

\* the store has been initialised: antCount is at least 1, so it holds ants
initialised == ants # << >>
idsOf(antList) == [i \in 1 .. Len(antList) |-> antList[i].id]

\* C20: once the store has been initialised, after any sequence of store actions
\* and simulation steps the number of ants equals antCount and no two ants
\* share an id; a step or an updateAnt keeps the ants it found, in their
\* order, and setAntCount(n) leaves exactly n ants.  updateAnt is given the
\* fields its callers pass (position, direction, hasFood, targetFood), and
\* setAntCount a whole number from 1 up, as the slider gives it.
C20_AntPopulation ==
    /\ [](initialised =>
             /\ Len(ants) = antCount
             /\ \A i, j \in 1 .. Len(ants) : ants[i].id = ants[j].id => i = j)
    /\ [][ /\ initialised => ants' # << >>
           /\ op' \in {"engine", "updateAnt"} => idsOf(ants') = idsOf(ants)
           /\ op' = "setAntCount" => Len(ants') = antCount' /\ antCount' \in AntCounts
      ]_vars

\* three ants after setAntCount(3), addFood and a step in which one of them
\* picked the food up
C20_Witness ==
    /\ op = "engine"
    /\ ticks = 3
    /\ Len(ants) = 3
    /\ \E i \in 1 .. 3 : ants[i].hasFood

(***************************************************************************)
(* Claims about the foods of the store (SpecFood)                          *)
(***************************************************************************)
\* the foods of a list that carry the id
withId(foodList, id) == {i \in 1 .. Len(foodList) : foodList[i].id = id}

\* C21: no two foods of the store share an id, whatever addFood, addRandomFoods,
\* removeFood, updateFood and steps came before, calls within one millisecond
\* included; hence removeFood and updateFood touch at most one food, and addFood
\* appends one food of amount 100 and leaves the others alone
C21_FoodIdsUnique ==
    /\ \A i, j \in 1 .. Len(foods) : foods[i].id = foods[j].id => i = j
    /\ op \in {"removeFood", "updateFood"}
           => Cardinality({i \in 1 .. Len(prev.foods) :
                              i > Len(foods) \/ foods[i] # prev.foods[i]}) <= 1
                  \/ Cardinality(withId(prev.foods, results[1].id)) <= 1
    /\ op = "addFood"
           => foods = Append(prev.foods,
                             [id |-> results[1].id, position |-> results[1].position,
                              amount |-> DEFAULT_FOOD_AMOUNT])

(***************************************************************************)
(* Claims about avoidCollisions (SpecCollision)                            *)
(***************************************************************************)
\* the other ants at a distance strictly between 0 and the avoidance radius
neighbours ==
    {i \in 1 .. Len(ants) :
        /\ ants[i].id # prev.id
        /\ torusDistanceSq(prev.position, ants[i].position) > 0
        /\ torusDistanceSq(prev.position, ants[i].position)
               < prev.avoidanceRadius * prev.avoidanceRadius}

\* C22: with no other ant at a distance strictly between 0 and avoidanceRadius,
\* avoidCollisions returns the direction and the position it was given, unwrapped
\* and uncorrected; the ant's own entry and ants at distance 0 add nothing
C22_AvoidanceNoOp ==
    (op = "avoidCollisions" /\ neighbours = {})
    => results[1] = [direction |-> prev.direction, position |-> prev.position]

\* the call had the ant's own entry inside the radius, another ant on the very
\* position, another exactly at the radius, and a position beyond the world's edge
C22_Witness ==
    /\ op = "avoidCollisions"
    /\ neighbours = {}
    /\ torusDistanceSq(prev.position, ants[1].position) > 0
    /\ \E i \in 2 .. Len(ants) : torusDistanceSq(prev.position, ants[i].position) = 0
    /\ \E i \in 2 .. Len(ants) :
          torusDistanceSq(prev.position, ants[i].position)
              = prev.avoidanceRadius * prev.avoidanceRadius
    /\ prev.position.x >= worldWidth

(***************************************************************************)
(* Claims about followPheromone (SpecFollow)                               *)
(***************************************************************************)
\* the directions of the left, centre and right sensors of the ant
sensorDirections ==
    <<ants[1].direction - SENSOR_ANGLE, ants[1].direction, ants[1].direction + SENSOR_ANGLE>>

\* what each sensor measures of the toFood trail
measured ==
    [i \in 1 .. 3 |->
        strengthOver(pheromones, DOMAIN pheromones,
                     stepFrom(ants[1].position, sensorDirections[i], SENSOR_DISTANCE),
                     "toFood")]

\* C23: followPheromone returns the direction it was given when the field is
\* empty or no sensor measures more than the minimum strength; otherwise it
\* returns the direction of the first of the sensors left, centre, right that
\* measure the most.  With an empty field the ant does not take the
\* pheromone-following branch, whatever it draws
C23_FollowFallback ==
    op = "followPheromone"
    => /\ (\A i \in 1 .. 3 : measured[i] <= MINIMUM_STRENGTH)
              => results[1].pheromoneDirection = ants[1].direction
       /\ (\E i \in 1 .. 3 : measured[i] > MINIMUM_STRENGTH)
              => \E i \in 1 .. 3 :
                    /\ \A j \in 1 .. 3 : measured[i] >= measured[j]
                    /\ \A j \in 1 .. (i - 1) : measured[j] < measured[i]
                    /\ results[1].pheromoneDirection = sensorDirections[i]
       /\ DOMAIN pheromones = {}
              => /\ results[1].pheromoneDirection = ants[1].direction
                 /\ ~results[1].follows

\* the left and the right sensor measure the same, more than the centre one and
\* more than the minimum, and the left one was taken
C23_Witness ==
    /\ op = "followPheromone"
    /\ measured[1] = measured[3]
    /\ measured[1] > measured[2]
    /\ measured[1] > MINIMUM_STRENGTH
    /\ results[1].pheromoneDirection = ants[1].direction - SENSOR_ANGLE
    /\ results[1].follows

(***************************************************************************)
(* Claims about the deposit of a returning ant (SpecBehavior)              *)
(***************************************************************************)
\* pheromoneDepositAmount * (1 + min(foodAmount / 30, 2)) in intensity units; the
\* deposit amount is in tenths
qualityDeposit(deposit, foodAmount) ==
    IF foodAmount = NoAmount
    THEN (deposit * IntensityScale) \div 10
    ELSE (deposit * IntensityScale * (30 + (IF foodAmount < 60 THEN foodAmount ELSE 60)))
             \div 300

\* C24: a returning ant that has not arrived leaves in an empty cell the
\* intensity pheromoneDepositAmount * (1 + min(foodAmount / 30, 2)), between one
\* and three times the deposit amount, and just the deposit amount when its
\* foodAmount is null; the foodAmount a pickup sets is the amount the food had
\* before the pickup lowered it
C24_QualityMultiplier ==
    op = "behavior"
    => /\ (behaved.hasFood /\ ~arrived(behaved)
              /\ createPheromoneKey(behaved.position) \notin DOMAIN prev.pheromones)
          => LET intensity ==
                     behavedResult.pheromoneUpdates[createPheromoneKey(behaved.position)]
                         .intensity
                 amount == (pheromoneDepositAmount * IntensityScale) \div 10
             IN  /\ intensity = qualityDeposit(pheromoneDepositAmount, behaved.foodAmount)
                 /\ amount <= intensity /\ intensity <= 3 * amount
       /\ (~behaved.hasFood /\ "hasFood" \in DOMAIN behavedResult.antUpdate)
          => \E i \in 1 .. Len(prev.foods) :
                /\ prev.foods[i].id = behavedResult.antUpdate.targetFood
                /\ prev.foods[i].amount = behavedResult.antUpdate.foodAmount

\* a carrier of a food of amount 100 left three times the deposit amount in an
\* empty cell
C24_Witness ==
    /\ op = "behavior"
    /\ behaved.hasFood /\ ~arrived(behaved)
    /\ behaved.foodAmount = DEFAULT_FOOD_AMOUNT
    /\ createPheromoneKey(behaved.position) \notin DOMAIN prev.pheromones
    /\ behavedResult.pheromoneUpdates[createPheromoneKey(behaved.position)].intensity
           = 3 * ((pheromoneDepositAmount * IntensityScale) \div 10)

(***************************************************************************)
(* Claims about torusWrap (SpecWrap)                                       *)
(***************************************************************************)
\* C25: for every position and world size torusWrap(p) has x in [0, W) and y in
\* [0, H), and wrapping what it returned returns the same position
C25_WrapIdempotent ==
    /\ op \in {"torusWrap", "torusWrapAgain"}
           => \A i \in 1 .. Len(results) :
                 /\ 0 <= results[i].x /\ results[i].x < prev.worldWidth
                 /\ 0 <= results[i].y /\ results[i].y < prev.worldHeight
    /\ op = "torusWrapAgain" => results[2] = results[1]

\* the correction avoidCollisions adds to the position, in 1/4000: the force in
\* thousandths times min(collisionCount * 0.5, 1) * 0.5
nudge ==
    TheOne({ <<force[1] * Min(force[3], 2), force[2] * Min(force[3], 2)>> :
             force \in {avoidanceForce(prev.position, ants, prev.id, prev.avoidanceRadius, 1)} })

\* C26: however many ants are near and wherever they are, the correction that
\* avoidCollisions adds to the position is shorter than the movement step
\* ANT_SPEED
C26_NudgeBelowStep ==
    op = "avoidCollisions"
    => nudge[1] * nudge[1] + nudge[2] * nudge[2]
           < (4000 * ANT_SPEED) * (4000 * ANT_SPEED)

(***************************************************************************)
(* Claims about the way home (SpecReturn)                                  *)
(***************************************************************************)
\* no other ant is within the avoidance radius of the place the ant moves to
unhindered(i) ==
    \A j \in 1 .. Len(ants) :
        j # i => LET distSq == torusDistanceSq(moveTowardsTarget(ants[i].position, nest,
                                                                  ANT_SPEED),
                                                ants[j].position)
                 IN  ~(distSq > 0 /\ distSq < COLLISION_AVOIDANCE_RADIUS
                                                  * COLLISION_AVOIDANCE_RADIUS)

\* one step of an unhindered carrier: inside the arrival range it turns forager
\* where it stands; outside it keeps its food and takes the ANT_SPEED step of
\* moveTowardsTarget (each coordinate rounded: a squared length of 2 to 5), which
\* brings it closer to the nest
homeward(i) ==
    IF torusDistanceSq(ants[i].position, nest) < NEST_ARRIVAL_RANGE * NEST_ARRIVAL_RANGE
    THEN ~ants'[i].hasFood /\ ants'[i].position = ants[i].position
    ELSE /\ ants'[i].hasFood
         /\ ants'[i].position = moveTowardsTarget(ants[i].position, nest, ANT_SPEED)
         /\ torusDistanceSq(ants'[i].position, ants[i].position) \in 2 .. 5
         /\ torusDistanceSq(ants'[i].position, nest) < torusDistanceSq(ants[i].position, nest)

\* C27: a returning ant with no other ant within the avoidance radius moves
\* ANT_SPEED along the shortest way to the nest in every step, so that its
\* distance to the nest falls in every step; a position closer to the nest than
\* the speed is moved onto the nest; after finitely many steps the ant is inside
\* the arrival range, and the step after that makes it a forager
C27_ReturnTripProgress ==
    /\ [][\A i \in 1 .. Len(ants) : (ants[i].hasFood /\ unhindered(i)) => homeward(i)]_vars
    /\ [](\A dx, dy \in -1 .. 1 :
              moveTowardsTarget(Pos(nest.x + dx, nest.y + dy), nest, ANT_SPEED) = nest)
    /\ \A i \in 1 .. 2 : (ants[i].hasFood ~> ~ants[i].hasFood)

\* a carrier that walked for more than a hundred steps arrived and turned forager
C27_Witness ==
    /\ op = "engine"
    /\ ticks > 100
    /\ \E i \in 1 .. Len(ants) : prev.ants[i].hasFood /\ ~ants[i].hasFood

(***************************************************************************)
(* Claims about the ant records of a run (SpecE2E)                         *)
(***************************************************************************)
\* what an ant carries: the three fields that go together
cargo(ant) == <<ant.hasFood, ant.targetFood, ant.foodAmount>>

\* an ant without food has neither targetFood nor foodAmount; an ant with food
\* has a food id as targetFood and a positive foodAmount
consistent(ant) ==
    IF ant.hasFood THEN ant.targetFood # Null /\ ant.foodAmount > 0
    ELSE ant.targetFood = Null /\ ant.foodAmount = NoAmount

\* the step changed the cargo of ant i at a pickup, to the id and the amount of a
\* food in its reach, or at an arrival at the nest, to nothing
cargoChange(i) ==
    \/ /\ ~ants[i].hasFood
       /\ \E j \in 1 .. Len(foods) :
             /\ inCollectionRange(ants[i], foods[j])
             /\ cargo(ants'[i]) = <<TRUE, foods[j].id, foods[j].amount>>
    \/ /\ arrived(ants[i])
       /\ cargo(ants'[i]) = <<FALSE, Null, NoAmount>>

inWorld(position) ==
    /\ 0 <= position.x /\ position.x < worldWidth
    /\ 0 <= position.y /\ position.y < worldHeight

\* C29: with the nest and every ant inside the world at the start, every ant is
\* inside the world, 0 <= x < W and 0 <= y < H, after any number of steps,
\* whichever way it moved: random walk, approach of a food, along a trail, home
\* to the nest, pushed by the collision correction, or not at all at a pickup
\* and at a drop-off
C29_AntsStayInside ==
    /\ inWorld(nest)
    /\ \A i \in 1 .. Len(ants) : inWorld(ants[i].position)

\* an ant stepped west across the left edge and the collision correction pushed
\* it east across the edge again, onto x = 0
C29_Witness ==
    /\ op = "engine"
    /\ \E i \in 1 .. Len(ants) :
          /\ prev.ants[i].position = Pos(1, 300)
          /\ moveAnt(prev.ants[i].position, prev.ants[i].direction,
                     prev.draws[prev.ants[i].id].turn).position.x = worldWidth - 1
          /\ ants[i].position.x = 0

(***************************************************************************)
(* Claims about the scheduling of the loop (SpecHook)                      *)
(***************************************************************************)
\* the values a step read are the store's before the step
freshSnapshot ==
    /\ prev'.ants = ants
    /\ prev'.foods = foods
    /\ prev'.pheromones = pheromones
\* what the step committed is one step of the store's state before it
oneStep ==
    /\ results' = animateBatch(Snapshot(ants, foods, pheromones), pheromoneDepositAmount,
                               prev'.draws)
    /\ ants' = animateApply(Snapshot(ants, foods, pheromones), results').ants
    /\ foods' = animateApply(Snapshot(ants, foods, pheromones), results').foods
\* the one pending callback is the animate of the values the store holds
pendingIsCurrent ==
    /\ Len(frameRequests) = 1
    /\ frameRequests[1].handle = animationFrameRef
    /\ effectDeps(frameRequests[1].animate) = effectDeps(useSimulationStore)

\* C30: at any time at most one frame callback of useSimulation is pending.  A
\* frame callback runs whole: it commits at most one step, computed from the
\* values the store held before it, and leaves one request pending.  A re-run
\* of the effect after isRunning, speed, ants, foods or pheromones changed
\* cancels the pending callback and requests one for the new render, so that
\* once the render is done the pending callback closes over the store's
\* current values.  While the component is not mounted no callback is pending
\* and no frame runs, hence no step.
C30_SingleLoop ==
    /\ [](Len(frameRequests) <= 1)
    /\ [](~mounted => frameRequests = << >>)
    /\ []((mounted /\ ~renderDue) => pendingIsCurrent)
    /\ [][ /\ frameRan =>
                 /\ mounted
                 /\ Len(frameRequests') = 1
                 /\ worldChanged => stepRan
           /\ stepRan => frameRan /\ freshSnapshot /\ oneStep
           /\ op' = "effect" =>
                 frameRequests' = <<[handle |-> animationFrameRef',
                                     animate |-> useSimulationStore]>>
           /\ worldChanged => (stepRan \/ op' = "addFood")
         ]_vars

\* a step moved the ant, the component rendered again and its effect replaced
\* the request that the step's callback had made
C30_Witness ==
    /\ op = "effect"
    /\ mounted
    /\ prev.ants # ants
    /\ Len(frameRequests) = 1
    /\ frameRequests[1].handle = animationFrameRef
    /\ frameRequests[1].animate.ants = ants
    /\ ticks >= 3

====
